---- MODULE Spec2Model ----
(***************************************************************************)
(* Model of the PGP web front end: the application controller (PGPApp),    *)
(* the key manager, the file codec, the validation helpers and the crypto  *)
(* wrappers (CryptoOps, SignVerify, Encrypt, Decrypt).                     *)
(*                                                                         *)
(* The OpenPGP library is external.  A key is a record, an armored block   *)
(* is a record naming its armor type and the key or message it encodes,    *)
(* and a library call either returns or throws.  An error message is a     *)
(* sequence of text fragments: `${a}: ${b}` is the concatenation a \o b    *)
(* and s.includes(t) is membership of the fragment t.                      *)
(***************************************************************************)
EXTENDS Integers, Sequences, FiniteSets, TLC

\* ------------------------------------------------------------------ bounds
MaxKeys == 2            \* distinct key identities the library can produce
MaxPassLen == 8         \* longest passphrase typed (one passphrase per length)

\* ------------------------------------------------------- program constants
MIN_PASSPHRASE_LENGTH == 8
DEFAULT_RSA_BITS == 2048
DEFAULT_EXPIRATION == 63072000

DEFAULT_ALGORITHM == "ecc"
Algorithms == {"ecc", "rsa2048", "rsa4096"}

\* ------------------------------------------------------------ basic values
Null == [null |-> TRUE]

Ok(v) == [ok |-> TRUE, value |-> v]
Throw(msg) == [ok |-> FALSE, error |-> msg]
\* throw new Error(`${prefix}: ${error.message}`)
Rethrow(prefix, o) == Throw(<<prefix>> \o o.error)
Includes(msg, fragment) == \E i \in 1..Len(msg) : msg[i] = fragment

KeyIds == 1..MaxKeys
PassLens == 0..MaxPassLen
Names == {"", " ", "Alice"}
Emails == {"", "alice.example.com", "alice@example.com"}

\* ------------------------------------------------------- the OpenPGP library
\* A private key: identity, algorithm family, size, and the passphrase that
\* locks it.  Its public half carries no passphrase.
PrivKey(id, type, bits, pass) == [id |-> id, type |-> type, bits |-> bits, pass |-> pass]
toPublic(k) == [id |-> k.id, type |-> k.type, bits |-> k.bits]

\* armor(): the ASCII-armored block of a key
ArmorPublic(pk) == [block |-> "PUBLIC KEY BLOCK", wellFormed |-> TRUE, key |-> pk]
ArmorPrivate(k) == [block |-> "PRIVATE KEY BLOCK", wellFormed |-> TRUE, key |-> k]
\* text that carries the armor markers but does not parse
Corrupt(block) == [block |-> block, wellFormed |-> FALSE]
\* text without any armor marker
PlainText == [block |-> "none", wellFormed |-> FALSE]

\* openpgp.readKey({armoredKey})
readKey(text) ==
    IF text # Null /\ text.wellFormed /\ text.block \in {"PUBLIC KEY BLOCK", "PRIVATE KEY BLOCK"}
    THEN Ok(toPublic(text.key))
    ELSE Throw(<<"Misformed armored text">>)

\* openpgp.readPrivateKey({armoredKey})
readPrivateKey(text) ==
    IF text # Null /\ text.wellFormed /\ text.block = "PRIVATE KEY BLOCK"
    THEN Ok(text.key)
    ELSE Throw(<<"Misformed armored text">>)

\* key.getKeyIDs()[0].toHex().toUpperCase(), getFingerprint(), getCreationTime(),
\* getUserIDs(): functions of the key
KeyIDHex(pk) == [keyid |-> pk.id]
Fingerprint(pk) == [fingerprint |-> pk.id]
CreationTime(pk) == [date |-> pk.id]
UserIDs(pk) == <<"Alice <alice@example.com>">>
\* Date.prototype.toISOString()
toISOString(d) == [iso |-> d.date]

\* ------------------------------------------------------------ key manager
\* KeyManager.getKeyAlgorithm(keyObj)
\* `RSA${algorithm.bits || ''}` for an RSA key, 'ECC' for a curve key
getKeyAlgorithm(pk) ==
    IF pk.type = "rsa"
    THEN (CASE pk.bits = 2048 -> "RSA2048" [] pk.bits = 4096 -> "RSA4096" [] OTHER -> "RSA")
    ELSE IF pk.type = "ecc" THEN "ECC"
    ELSE "UNKNOWN"

\* config.algorithm.toUpperCase()
toUpperCase(algorithm) ==
    CASE algorithm = "ecc" -> "ECC"
      [] algorithm = "rsa2048" -> "RSA2048"
      [] algorithm = "rsa4096" -> "RSA4096"

Metadata(pk, algorithm) ==
    [keyId |-> KeyIDHex(pk), fingerprint |-> Fingerprint(pk), algorithm |-> algorithm,
     created |-> CreationTime(pk), userIds |-> UserIDs(pk)]

KeyPairRecord(privateKey, publicKey, privateKeyObj, publicKeyObj, metadata) ==
    [privateKey |-> privateKey, publicKey |-> publicKey,
     privateKeyObj |-> privateKeyObj, publicKeyObj |-> publicKeyObj,
     metadata |-> metadata]

\* A signed message (armored 'MESSAGE' or cleartext 'SIGNED MESSAGE'): its
\* text, the key that signed it and the state of the signature.  An unsigned
\* literal message has no signature; an encrypted one names its recipient.
SignedMessage(block, text, signer, sig) ==
    [block |-> block, wellFormed |-> TRUE, payload |-> "signed", text |-> text,
     signer |-> signer, sig |-> sig]
UnsignedMessage(text) ==
    [block |-> "MESSAGE", wellFormed |-> TRUE, payload |-> "literal", text |-> text]
EncryptedMessage(text, recipient) ==
    [block |-> "MESSAGE", wellFormed |-> TRUE, payload |-> "encrypted", text |-> text,
     recipient |-> recipient]

\* openpgp.readMessage({armoredMessage})
readMessage(text) ==
    IF text # Null /\ text.wellFormed /\ text.block = "MESSAGE"
    THEN Ok(text) ELSE Throw(<<"Misformed armored text">>)

\* openpgp.readCleartextMessage({cleartextMessage})
readCleartextMessage(text) ==
    IF text # Null /\ text.wellFormed /\ text.block = "SIGNED MESSAGE"
    THEN Ok(text) ELSE Throw(<<"Misformed armored text">>)

\* await signature.verified: resolves for a good signature of the given key
\* and rejects with the library's reason otherwise
signatureVerified(message, pk) ==
    IF message.signer # pk.id THEN Throw(<<"Could not find signing key with key ID">>)
    ELSE IF message.sig = "tampered" THEN Throw(<<"Signed digest did not match">>)
    ELSE IF message.sig = "forged" THEN Throw(<<"Signature verification failed">>)
    ELSE Ok(TRUE)

\* openpgp.verify({message, verificationKeys})
verify(message, pk) ==
    CASE message.payload = "signed" ->
             Ok([data |-> message.text, signatures |-> <<signatureVerified(message, pk)>>,
                 keyID |-> message.signer])
      [] message.payload = "literal" ->
             Ok([data |-> message.text, signatures |-> <<>>, keyID |-> 0])
      [] OTHER -> Throw(<<"Error verifying signed message", "Message is encrypted">>)

\* openpgp.decryptKey({privateKey, passphrase})
decryptKey(k, passphrase) ==
    IF k.pass = passphrase THEN Ok(k)
    ELSE Throw(<<"Error decrypting private key", "Incorrect key passphrase">>)

\* openpgp.sign({message, signingKeys, format: 'armored'}) on createMessage
\* (armored) or createCleartextMessage (cleartext)
sign(block, text, k) == SignedMessage(block, text, k.id, "good")

\* ------------------------------------------------------------- SignVerify
\* SignVerify.signMessage(message, keyPair, passphrase); passphrase 0 stands
\* for a missing or empty one.  Yields the outcome and the library calls made.
SignVerify_signMessage(message, keyPair, passphrase) ==
    LET privateKey == readPrivateKey(keyPair.privateKey)
        decrypted == decryptKey(privateKey.value, passphrase)
        body ==
          IF keyPair = Null \/ keyPair.privateKey = Null
          THEN [result |-> Throw(<<"No private key available for signing">>), calls |-> <<>>]
          ELSE IF passphrase = 0
          THEN [result |-> Throw(<<"Passphrase is required for signing">>), calls |-> <<>>]
          ELSE IF ~privateKey.ok
          THEN [result |-> privateKey, calls |-> <<"readPrivateKey">>]
          ELSE IF ~decrypted.ok
          THEN [result |-> decrypted, calls |-> <<"readPrivateKey", "decryptKey">>]
          ELSE [result |-> Ok(sign("MESSAGE", message, decrypted.value)),
                calls |-> <<"readPrivateKey", "decryptKey", "createMessage", "sign">>]
    IN  IF body.result.ok THEN body
        ELSE [result |-> Rethrow("Error signing message", body.result), calls |-> body.calls]

\* SignVerify.verifyMessage(signedMessage, publicKey)
SignVerify_verifyMessage(signedMessage, publicKey) ==
    LET message == readMessage(signedMessage)
        verificationKeys == readKey(publicKey)
        verificationResult == verify(message.value, verificationKeys.value)
        signatures == verificationResult.value.signatures
        isValid == \E i \in 1..Len(signatures) : signatures[i].ok
        body ==
          IF signedMessage = Null
          THEN [result |-> Throw(<<"No signed message provided">>), calls |-> <<>>]
          ELSE IF ~message.ok
          THEN [result |-> Throw(<<"Invalid signed message format">>),
                calls |-> <<"readMessage">>]
          ELSE IF publicKey = Null
          THEN [result |-> Throw(<<"No public key provided for verification">>),
                calls |-> <<"readMessage">>]
          ELSE IF ~verificationKeys.ok
          THEN [result |-> verificationKeys, calls |-> <<"readMessage", "readKey">>]
          ELSE IF ~verificationResult.ok
          THEN [result |-> verificationResult, calls |-> <<"readMessage", "readKey", "verify">>]
          ELSE [result |-> Ok([valid |-> isValid,
                               message |-> verificationResult.value.data,
                               signer |-> IF isValid THEN verificationResult.value.keyID ELSE 0,
                               signatures |-> Len(signatures)]),
                calls |-> <<"readMessage", "readKey", "verify">>]
    IN  IF body.result.ok THEN body
        ELSE [result |-> Rethrow("Error verifying message", body.result), calls |-> body.calls]

\* openpgp.encrypt({message, encryptionKeys}) / openpgp.decrypt({message, decryptionKeys})
encrypt(text, pk) == EncryptedMessage(text, pk.id)
decrypt(message, k) ==
    IF message.payload = "encrypted" /\ message.recipient = k.id THEN Ok(message.text)
    ELSE Throw(<<"Error decrypting message", "No decryption keys found">>)

\* --------------------------------------------------------------- constants.js
NO_KEYS == "No key pair available. Please generate or load keys first."
DECRYPTION_FAILED == "Failed to decrypt message. Check your passphrase and try again."
VERIFICATION_FAILED == "Signature verification failed"
ENCRYPTION_FAILED == "Encryption failed"
SIGNING_FAILED == "Signing failed"

\* -------------------------------------------------------------- Validation
\* Validation.validatePGPMessage(message): the BEGIN/END markers are present
validatePGPMessage(message) ==
    message # Null /\ message.block \in {"MESSAGE", "SIGNED MESSAGE"}
\* Validation.validatePGPPublicKey(key)
validatePGPPublicKey(key) == key.block = "PUBLIC KEY BLOCK"

\* ---------------------------------------------------------------- CryptoOps
\* CryptoOps.encryptMessage(message, recipientPublicKey); currentKeyPair is
\* what keyManager.getCurrentKeyPair() returns
CryptoOps_encryptMessage(currentKeyPair, message, recipientPublicKey) ==
    LET publicKey == readKey(recipientPublicKey)
        body ==
          IF message = "" \/ message = " "
          THEN [result |-> Throw(<<"Message cannot be empty">>), calls |-> <<>>]
          ELSE IF recipientPublicKey # Null
          THEN (IF ~validatePGPPublicKey(recipientPublicKey)
                THEN [result |-> Throw(<<"Invalid public key format">>), calls |-> <<>>]
                ELSE IF ~publicKey.ok
                THEN [result |-> publicKey, calls |-> <<"readKey">>]
                ELSE [result |-> Ok(encrypt(message, publicKey.value)),
                      calls |-> <<"readKey", "createMessage", "encrypt">>])
          ELSE IF currentKeyPair = Null
          THEN [result |-> Throw(<<NO_KEYS>>), calls |-> <<>>]
          ELSE [result |-> Ok(encrypt(message, currentKeyPair.publicKeyObj)),
                calls |-> <<"createMessage", "encrypt">>]
    IN  IF body.result.ok THEN body
        ELSE [result |-> Rethrow(ENCRYPTION_FAILED, body.result), calls |-> body.calls]

\* CryptoOps.decryptMessage(encryptedMessage, passphrase)
CryptoOps_decryptMessage(currentKeyPair, encryptedMessage, passphrase) ==
    LET privateKey == IF currentKeyPair.privateKeyObj = Null
                      THEN Throw(<<"Error decrypting private key">>)
                      ELSE decryptKey(currentKeyPair.privateKeyObj, passphrase)
        message == readMessage(encryptedMessage)
        decrypted == decrypt(message.value, privateKey.value)
        body ==
          IF currentKeyPair = Null
          THEN [result |-> Throw(<<NO_KEYS>>), calls |-> <<>>]
          ELSE IF passphrase = 0
          THEN [result |-> Throw(<<"Passphrase is required for decryption">>), calls |-> <<>>]
          ELSE IF ~validatePGPMessage(encryptedMessage)
          THEN [result |-> Throw(<<"Invalid encrypted message format">>), calls |-> <<>>]
          ELSE IF ~privateKey.ok
          THEN [result |-> privateKey, calls |-> <<"decryptKey">>]
          ELSE IF ~message.ok
          THEN [result |-> message, calls |-> <<"decryptKey", "readMessage">>]
          ELSE [result |-> decrypted, calls |-> <<"decryptKey", "readMessage", "decrypt">>]
    IN  IF body.result.ok THEN body
        ELSE [result |-> Rethrow(DECRYPTION_FAILED, body.result), calls |-> body.calls]

\* CryptoOps.signMessage(message, passphrase)
CryptoOps_signMessage(currentKeyPair, message, passphrase) ==
    LET privateKey == IF currentKeyPair.privateKeyObj = Null
                      THEN Throw(<<"Error decrypting private key">>)
                      ELSE decryptKey(currentKeyPair.privateKeyObj, passphrase)
        body ==
          IF currentKeyPair = Null
          THEN [result |-> Throw(<<NO_KEYS>>), calls |-> <<>>]
          ELSE IF message = "" \/ message = " "
          THEN [result |-> Throw(<<"Message cannot be empty">>), calls |-> <<>>]
          ELSE IF passphrase = 0
          THEN [result |-> Throw(<<"Passphrase is required for decryption">>), calls |-> <<>>]
          ELSE IF ~privateKey.ok
          THEN [result |-> privateKey, calls |-> <<"decryptKey">>]
          ELSE [result |-> Ok(sign("SIGNED MESSAGE", message, privateKey.value)),
                calls |-> <<"decryptKey", "createCleartextMessage", "sign">>]
    IN  IF body.result.ok THEN body
        ELSE [result |-> Rethrow(SIGNING_FAILED, body.result), calls |-> body.calls]

\* CryptoOps.verifyMessage(signedMessage, signerPublicKey)
CryptoOps_verifyMessage(currentKeyPair, signedMessage, signerPublicKey) ==
    LET given == readKey(signerPublicKey)
        publicKey == IF signerPublicKey # Null THEN given.value
                     ELSE currentKeyPair.publicKeyObj
        message == readCleartextMessage(signedMessage)
        verificationResult == verify(message.value, publicKey)
        verified == verificationResult.value.signatures[1]
        keyCalls == IF signerPublicKey # Null THEN <<"readKey">> ELSE <<>>
        body ==
          IF ~validatePGPMessage(signedMessage)
          THEN [result |-> Throw(<<"Invalid signed message format">>), calls |-> <<>>]
          ELSE IF signerPublicKey # Null /\ ~validatePGPPublicKey(signerPublicKey)
          THEN [result |-> Throw(<<"Invalid public key format">>), calls |-> <<>>]
          ELSE IF signerPublicKey # Null /\ ~given.ok
          THEN [result |-> given, calls |-> keyCalls]
          ELSE IF signerPublicKey = Null /\ currentKeyPair = Null
          THEN [result |-> Throw(<<NO_KEYS>>), calls |-> <<>>]
          ELSE IF ~message.ok
          THEN [result |-> message, calls |-> keyCalls \o <<"readCleartextMessage">>]
          ELSE IF ~verificationResult.ok
          THEN [result |-> verificationResult,
                calls |-> keyCalls \o <<"readCleartextMessage", "verify">>]
          ELSE IF ~verified.ok
          THEN [result |-> verified,
                calls |-> keyCalls \o <<"readCleartextMessage", "verify">>]
          ELSE [result |-> Ok([verified |-> TRUE, data |-> verificationResult.value.data]),
                calls |-> keyCalls \o <<"readCleartextMessage", "verify">>]
    IN  IF body.result.ok THEN body
        ELSE IF Includes(body.result.error, "Signature verification failed")
        THEN [result |-> Ok([verified |-> FALSE,
                             error |-> "Signature verification failed - the message may have been tampered with or signed by a different key"]),
              calls |-> body.calls]
        ELSE [result |-> Rethrow(VERIFICATION_FAILED, body.result), calls |-> body.calls]

\* verifyMessage(signedMessage, publicKey), the function exported next to SignVerify
verifyMessage(signedMessage, publicKey) ==
    LET pubKey == readKey(publicKey)
        message == readMessage(signedMessage)
        verification == verify(message.value, pubKey.value)
        signature == verification.value.signatures[1]
        body ==
          IF signedMessage = Null
          THEN [result |-> Throw(<<"Valid signed message is required">>), calls |-> <<>>]
          ELSE IF publicKey = Null
          THEN [result |-> Throw(<<"Public key is required for verification">>),
                calls |-> <<>>]
          ELSE IF ~pubKey.ok
          THEN [result |-> pubKey, calls |-> <<"readKey">>]
          ELSE IF ~message.ok
          THEN [result |-> message, calls |-> <<"readKey", "readMessage">>]
          ELSE IF ~verification.ok
          THEN [result |-> verification, calls |-> <<"readKey", "readMessage", "verify">>]
          ELSE IF Len(verification.value.signatures) = 0
          THEN [result |-> Ok([valid |-> FALSE,
                               message |-> <<"No signatures found in the message">>,
                               signer |-> 0]),
                calls |-> <<"readKey", "readMessage", "verify">>]
          ELSE IF ~signature.ok
          THEN [result |-> signature, calls |-> <<"readKey", "readMessage", "verify">>]
          ELSE [result |-> Ok([valid |-> TRUE, message |-> <<"Signature is valid">>,
                               signer |-> verification.value.keyID]),
                calls |-> <<"readKey", "readMessage", "verify">>]
    IN  IF body.result.ok THEN body
        ELSE [result |-> Ok([valid |-> FALSE,
                             message |-> <<"Verification failed">> \o body.result.error,
                             signer |-> 0]),
              calls |-> body.calls]

\* The methods of class KeyManager
KeyManagerMethods == {"generateKeyPair", "saveKeyPair", "saveKeyPairToFile", "loadKeyPair",
                      "savePrivateKeyToFile", "savePublicKeyToFile", "loadKeyFromFile",
                      "getKeyAlgorithm", "getCurrentKeyPair", "setCurrentKeyPair",
                      "clearCurrentKeyPair", "hasKeyPair"}
\* Calling a method the object does not have throws a TypeError
NotAFunction(callee) == Throw(<<callee, "is not a function">>)

\* The methods class Encrypt and class Decrypt define
EncryptMethods == {"init", "setupEventListeners", "toggleCustomPublicKey", "handleEncrypt",
                   "updateUI", "updateStatus", "showOutput", "addCopyButton", "getStatus",
                   "reset"}
DecryptMethods == {"init", "setupEventListeners", "handleDecrypt", "updateUI",
                   "updateStatus", "showOutput", "addCopyButton", "getStatus", "reset"}

\* ---------------------------------------------------------------- FileUtils
supportedFormats == {"txt", "asc", "pgp", "key", "json"}

\* A file: the extension of its name, its MIME type and its content.  Content
\* is JSON text (of an object), text that starts with '{' but is not JSON, or
\* other text.
JsonContent(data) == [kind |-> "json", data |-> data]
BrokenJsonContent == [kind |-> "brokenjson"]
TextContent(text) == [kind |-> "text", text |-> text]
File(ext, type, content) == [ext |-> ext, type |-> type, content |-> content]

\* FileUtils.isValidKeyFile(file)
isValidKeyFile(file) == file.ext \in supportedFormats \/ file.type = "text/plain"
\* FileUtils.isJsonFile(filename)
isJsonFile(file) == file.ext = "json"
\* content.trim().startsWith('{')
startsWithBrace(content) == content.kind \in {"json", "brokenjson"}
\* FileUtils.isValidPGPContent(content)
isValidPGPContent(content) ==
    content.kind = "text" /\
    content.text.block \in {"PUBLIC KEY BLOCK", "PRIVATE KEY BLOCK", "MESSAGE", "SIGNATURE"}

\* a || b on values that are null or a non-empty string
OrElse(a, b) == IF a # Null THEN a ELSE b

\* FileUtils.loadKeyPairFromJson(content, file)
loadKeyPairFromJson(content) ==
    LET parsed == IF content.kind = "json" THEN Ok(content.data)
                  ELSE Throw(<<"Unexpected token">>)
        checked == IF ~parsed.ok THEN parsed
                   ELSE IF parsed.value.keys = Null
                           \/ (parsed.value.keys.publicKey = Null /\ parsed.value.keys.privateKey = Null)
                        THEN Throw(<<"Invalid key pair JSON format">>)
                        ELSE Ok([content |-> OrElse(parsed.value.keys.privateKey,
                                                    parsed.value.keys.publicKey),
                                 isJsonFormat |-> TRUE,
                                 metadata |-> parsed.value.metadata,
                                 keys |-> parsed.value.keys])
    IN  IF checked.ok THEN checked ELSE Rethrow("Invalid JSON key file", checked)

\* FileUtils.loadArmoredKeyFromFile(content, file)
loadArmoredKeyFromFile(content) ==
    IF ~isValidPGPContent(content)
    THEN Throw(<<"File does not contain valid PGP key data">>)
    ELSE Ok([content |-> content.text, isJsonFormat |-> FALSE])

\* FileUtils.loadKeyFromFile(file); readOk: the FileReader delivered the text
FileUtils_loadKeyFromFile(file, readOk) ==
    LET body == IF ~isValidKeyFile(file)
                THEN Throw(<<"Invalid file type. Supported formats: txt, asc, pgp, key, json">>)
                ELSE IF ~readOk THEN Throw(<<"Failed to read file">>)
                ELSE IF isJsonFile(file) \/ startsWithBrace(file.content)
                     THEN loadKeyPairFromJson(file.content)
                     ELSE loadArmoredKeyFromFile(file.content)
    IN  IF body.ok THEN body ELSE Rethrow("Failed to load key", body)

\* The parser FileUtils.loadKeyFromFile hands the content to: none when the
\* file is rejected or cannot be read.
FileUtils_loadPath(file, readOk) ==
    IF ~isValidKeyFile(file) \/ ~readOk THEN <<>>
    ELSE IF isJsonFile(file) \/ startsWithBrace(file.content)
         THEN <<"loadKeyPairFromJson">>
         ELSE <<"loadArmoredKeyFromFile">>

\* FileUtils.saveKeyPairAsJson(keyPair): the JSON document written to the file
saveKeyPairAsJson(keyPair) ==
    [keys |-> [publicKey |-> keyPair.publicKey, privateKey |-> keyPair.privateKey],
     metadata |-> [keyId |-> keyPair.metadata.keyId,
                   fingerprint |-> keyPair.metadata.fingerprint,
                   algorithm |-> keyPair.metadata.algorithm,
                   created |-> toISOString(keyPair.metadata.created),
                   userIds |-> keyPair.metadata.userIds],
     keyInfo |-> [hasPrivateKey |-> keyPair.privateKey # Null,
                  hasPublicKey |-> keyPair.publicKey # Null,
                  isComplete |-> keyPair.privateKey # Null /\ keyPair.publicKey # Null]]

\* ------------------------------------------------------------- KeyManager
\* KeyManager.loadKeyFromFile(file) (the version PGPApp calls through loadKeyPair)
KeyManager_loadKeyFromFile(file, readOk) ==
    LET keyData == FileUtils_loadKeyFromFile(file, readOk)
        content == keyData.value.content
        body ==
          IF ~keyData.ok THEN keyData
          ELSE IF content.block = "PRIVATE KEY BLOCK"
          THEN LET privateKeyObj == readPrivateKey(content)
               IN  IF ~privateKeyObj.ok THEN privateKeyObj
                   ELSE LET publicKey == ArmorPublic(toPublic(privateKeyObj.value))
                            publicKeyObj == readKey(publicKey)
                        IN  Ok(KeyPairRecord(content, publicKey, privateKeyObj.value,
                                   publicKeyObj.value,
                                   Metadata(publicKeyObj.value,
                                            getKeyAlgorithm(publicKeyObj.value))))
          ELSE IF content.block = "PUBLIC KEY BLOCK"
          THEN LET publicKeyObj == readKey(content)
               IN  IF ~publicKeyObj.ok THEN publicKeyObj
                   ELSE Ok(KeyPairRecord(Null, content, Null, publicKeyObj.value,
                               Metadata(publicKeyObj.value,
                                        getKeyAlgorithm(publicKeyObj.value))))
          ELSE Throw(<<"File does not contain a valid PGP key">>)
    IN  IF body.ok THEN body ELSE Rethrow("Key load failed", body)

\* Variant: an expiration time is passed to the library also for "never"
keyOptions_alwaysExpires(userInfo, config) ==
    [type |-> IF config.algorithm = "ecc" THEN "ecc" ELSE "rsa",
     rsaBits |-> IF config.algorithm = "ecc" THEN 0
                 ELSE IF config.keySize # 0 THEN config.keySize ELSE DEFAULT_RSA_BITS,
     keyExpirationTime |-> IF config.expiration > 0 THEN config.expiration
                           ELSE DEFAULT_EXPIRATION,
     passphrase |-> userInfo.passphrase]

\* The options KeyManager.generateKeyPair builds for openpgp.generateKey
keyOptions(userInfo, config) ==
    [type |-> IF config.algorithm = "ecc" THEN "ecc" ELSE "rsa",
     rsaBits |-> IF config.algorithm = "ecc" THEN 0
                 ELSE IF config.keySize # 0 THEN config.keySize ELSE DEFAULT_RSA_BITS,
     keyExpirationTime |-> IF config.expiration > 0 THEN config.expiration ELSE 0,
     passphrase |-> userInfo.passphrase]

LibFaults == {"none", "generateKey", "readPrivateKey", "readKey"}

\* Variant: the record is stored as soon as the key is generated, before the
\* armored keys are read back.
KeyManager_generateKeyPair_eager(current, options, config, id, fault) ==
    LET key == PrivKey(id, options.type, options.rsaBits, options.passphrase)
        partial == KeyPairRecord(ArmorPrivate(key), ArmorPublic(toPublic(key)), Null, Null, Null)
        keyPair == KeyPairRecord(ArmorPrivate(key), ArmorPublic(toPublic(key)), key,
                       toPublic(key), Metadata(toPublic(key), toUpperCase(config.algorithm)))
    IN  IF fault = "none"
        THEN [result |-> Ok(keyPair), currentKeyPair |-> keyPair]
        ELSE [result |-> Throw(<<"Key generation failed", fault>>),
              currentKeyPair |-> IF fault = "generateKey" THEN current ELSE partial]

\* KeyManager.generateKeyPair after openpgp.generateKey was called with options:
\* id is the identity of the key the library produced, fault the library call
\* that throws (if any), current the value of this.currentKeyPair.  Yields the
\* outcome of the call and the new value of this.currentKeyPair.
KeyManager_generateKeyPair(current, options, config, id, fault) ==
    LET key == PrivKey(id, options.type, options.rsaBits, options.passphrase)
        privateKey == ArmorPrivate(key)
        publicKey == ArmorPublic(toPublic(key))
        keyPair == KeyPairRecord(privateKey, publicKey, key, toPublic(key),
                       Metadata(toPublic(key), toUpperCase(config.algorithm)))
    IN  IF fault = "none"
        THEN [result |-> Ok(keyPair), currentKeyPair |-> keyPair]
        ELSE [result |-> Throw(<<"Key generation failed", fault>>),
              currentKeyPair |-> current]

\* ------------------------------------------------------------------ inputs
\* String.prototype.trim() on the name field
trim(name) == IF name = " " THEN "" ELSE name
\* /^[^\s@]+@[^\s@]+\.[^\s@]+$/.test(email)
emailRegex(email) == email = "alice@example.com"

\* Variant: no minimum passphrase length
validateUserInput_anyLength(nameField, emailField, passphrase) ==
    LET name == trim(nameField)
        email == emailField
    IN  IF name = "" THEN Throw(<<"Name is required">>)
        ELSE IF email = "" THEN Throw(<<"Email is required">>)
        ELSE IF passphrase = 0 THEN Throw(<<"Passphrase is required">>)
        ELSE IF ~emailRegex(email) THEN Throw(<<"Please enter a valid email address">>)
        ELSE Ok([name |-> name, email |-> email, passphrase |-> passphrase])

\* PGPApp.validateUserInput()
validateUserInput(nameField, emailField, passphrase) ==
    LET name == trim(nameField)
        email == emailField
    IN  IF name = "" THEN Throw(<<"Name is required">>)
        ELSE IF email = "" THEN Throw(<<"Email is required">>)
        ELSE IF passphrase = 0 THEN Throw(<<"Passphrase is required">>)
        ELSE IF ~emailRegex(email) THEN Throw(<<"Please enter a valid email address">>)
        ELSE IF passphrase < 8
             THEN Throw(<<"Passphrase must be at least 8 characters long">>)
        ELSE Ok([name |-> name, email |-> email, passphrase |-> passphrase])

\* Keys found in the files a user may pick
FileKeys == {PrivKey(id, "ecc", 0, MIN_PASSPHRASE_LENGTH) : id \in KeyIds}

Envelope(publicKey, privateKey) ==
    JsonContent([keys |-> [publicKey |-> publicKey, privateKey |-> privateKey],
                 metadata |-> Null])

UserFiles ==
    {File("asc", "text/plain", TextContent(ArmorPublic(toPublic(k)))) : k \in FileKeys}
    \cup {File("asc", "text/plain", TextContent(ArmorPrivate(k))) : k \in FileKeys}
    \cup {File("json", "application/json", Envelope(ArmorPublic(toPublic(k)), ArmorPrivate(k))) :
             k \in FileKeys}
    \cup {File("json", "application/json", Envelope(ArmorPublic(toPublic(k)), Null)) :
             k \in FileKeys}
    \cup {File("json", "application/json", Envelope(Null, ArmorPrivate(k))) : k \in FileKeys}
    \cup {File("json", "application/json", Envelope(Null, Null)),
          File("json", "application/json", JsonContent([keys |-> Null, metadata |-> Null])),
          File("json", "application/json", BrokenJsonContent),
          File("asc", "text/plain", TextContent(Corrupt("PRIVATE KEY BLOCK"))),
          File("asc", "text/plain", TextContent(Corrupt("PUBLIC KEY BLOCK"))),
          File("txt", "text/plain", TextContent(PlainText)),
          File("bin", "application/octet-stream", TextContent(PlainText)),
          File("json", "application/json",
               TextContent(ArmorPublic(toPublic(PrivKey(1, "ecc", 0, MIN_PASSPHRASE_LENGTH))))),
          File("gpg", "", TextContent(ArmorPrivate(PrivKey(1, "ecc", 0, MIN_PASSPHRASE_LENGTH)))),
          File("asc", "text/plain",
               Envelope(ArmorPublic(toPublic(PrivKey(1, "ecc", 0, MIN_PASSPHRASE_LENGTH))), Null))}

\* ------------------------------------------------------------------- state
VARIABLES
    appCurrentKeyPair,   \* PGPApp.state.currentKeyPair
    kmCurrentKeyPair,    \* KeyManager.currentKeyPair
    advancedConfig,      \* PGPApp.state.advancedConfig
    isGenerating,        \* PGPApp.state.isGenerating
    loading,             \* buttons put in the loading state by setLoading
    genPc, genReq,       \* handleGenerateClick: position and pending library call
    loadPc, loadReq,     \* handleFileLoad: position and the file being read
    disk,                \* the JSON document of the last saved key file
    verifyContainerDisplay,   \* style.display of #verifyCustomPublicKeyContainer
    encryptContainerDisplay,  \* style.display of #encryptCustomPublicKeyContainer
    verifyCustomPublicKey,    \* value of the #verifyCustomPublicKey field
    encryptCustomPublicKey,   \* value of the #encryptCustomPublicKey field
    useCustomPublicKey,       \* Encrypt.useCustomPublicKey
    verifyUseCustomPublicKey, \* SignVerify.useCustomPublicKey
    enabledButtons,      \* the buttons updateButtonStates left enabled
    signVerifyStatus,    \* the text of the #signVerifyStatus indicator
    last                 \* what the last handler run did and displayed

storeVars == <<appCurrentKeyPair, kmCurrentKeyPair>>
asyncVars == <<genPc, genReq, loadPc, loadReq, isGenerating, loading>>
domVars == <<verifyContainerDisplay, encryptContainerDisplay,
             verifyCustomPublicKey, encryptCustomPublicKey, useCustomPublicKey,
             verifyUseCustomPublicKey>>
uiVars == <<enabledButtons, signVerifyStatus>>
vars == <<appCurrentKeyPair, kmCurrentKeyPair, advancedConfig, isGenerating, loading,
          genPc, genReq, loadPc, loadReq, disk, verifyContainerDisplay,
          encryptContainerDisplay, verifyCustomPublicKey, encryptCustomPublicKey,
          useCustomPublicKey, verifyUseCustomPublicKey, enabledButtons,
          signVerifyStatus, last>>

\* One handler run: the operation, how it ended, the message displayed, the
\* calls made into the crypto wrappers and the library, the inputs, the key
\* handed to the crypto call and the value obtained.
Obs(op, status, message, calls, input, keyArg, result) ==
    [op |-> op, status |-> status, message |-> message, calls |-> calls,
     input |-> input, keyArg |-> keyArg, result |-> result]

\* updateButtonStates / updateStatusIndicators: the buttons enabled and the
\* status shown for the record currentKeyPair
updateButtonStates(currentKeyPair) ==
    LET hasKeys == currentKeyPair # Null
    IN  [enabled |-> {"verifyBtn", "encryptBtn"}
                     \cup (IF hasKeys THEN {"saveKeyBtn", "signBtnNew", "decryptBtn"} ELSE {}),
         status |-> IF hasKeys THEN "Ready" ELSE "Keys Required"]

Init ==
    /\ appCurrentKeyPair = Null
    /\ kmCurrentKeyPair = Null
    /\ advancedConfig = [algorithm |-> DEFAULT_ALGORITHM, keySize |-> 0,
                         expiration |-> DEFAULT_EXPIRATION]
    /\ isGenerating = FALSE
    /\ loading = {}
    /\ genPc = "idle" /\ genReq = Null
    /\ loadPc = "idle" /\ loadReq = Null
    /\ disk = Null
    /\ verifyContainerDisplay \in {"none", ""}
    /\ encryptContainerDisplay \in {"none", ""}
    /\ verifyCustomPublicKey = Null
    /\ encryptCustomPublicKey = Null
    /\ useCustomPublicKey = FALSE
    /\ verifyUseCustomPublicKey = FALSE
    /\ enabledButtons = updateButtonStates(Null).enabled
    /\ signVerifyStatus = updateButtonStates(Null).status
    /\ last = Obs("init", "none", <<>>, <<>>, Null, Null, Null)

\* -------------------------------------------------- PGPApp: key generation
\* handleGenerateClick up to its await: validation, then KeyManager.generateKeyPair
\* builds the options and calls openpgp.generateKey.
GenerateStart(name, email, passphrase) ==
    /\ "generateBtn" \notin loading
    /\ LET userInfo == validateUserInput(name, email, passphrase)
       IN  IF ~userInfo.ok
           THEN /\ last' = Obs("generate", "error",
                               <<"Key generation failed">> \o userInfo.error, <<>>,
                               [passphrase |-> passphrase], Null, Null)
                /\ isGenerating' = FALSE
                /\ UNCHANGED <<genPc, genReq, loading>>
           ELSE /\ genPc' = "generateKey"
                /\ genReq' = keyOptions(userInfo.value, advancedConfig)
                /\ isGenerating' = TRUE
                /\ loading' = loading \cup {"generateBtn"}
                /\ last' = Obs("generate", "pending", <<>>, <<"generateKey">>,
                               [passphrase |-> passphrase], Null, Null)
    /\ UNCHANGED <<storeVars, advancedConfig, loadPc, loadReq, disk, domVars, uiVars>>

\* Variant: a record without a private key keeps the private key already stored
StoreSet_merge(current, keyPair) ==
    IF current # Null /\ keyPair.privateKey = Null
    THEN [keyPair EXCEPT !.privateKey = current.privateKey,
                         !.privateKeyObj = current.privateKeyObj]
    ELSE keyPair

\* this.state.currentKeyPair = keyPair
StoreSet(current, keyPair) == keyPair

\* The library call settles; KeyManager.generateKeyPair finishes and
\* handleGenerateClick resumes (try / catch / finally).
GenerateComplete(id, fault) ==
    /\ genPc = "generateKey"
    /\ LET km == KeyManager_generateKeyPair(kmCurrentKeyPair, genReq, advancedConfig, id, fault)
           calls == CASE fault = "generateKey" -> <<"generateKey">>
                      [] fault = "readPrivateKey" -> <<"generateKey", "readPrivateKey">>
                      [] OTHER -> <<"generateKey", "readPrivateKey", "readKey">>
       IN  /\ kmCurrentKeyPair' = km.currentKeyPair
           /\ IF km.result.ok
              THEN /\ appCurrentKeyPair' = StoreSet(appCurrentKeyPair, km.result.value)
                   /\ last' = Obs("generate", "success", <<"Key pair generated successfully!">>,
                                  calls, [passphrase |-> genReq.passphrase],
                                  genReq, km.result.value)
              ELSE /\ appCurrentKeyPair' = appCurrentKeyPair
                   /\ last' = Obs("generate", "error",
                                  <<"Key generation failed">> \o km.result.error,
                                  calls, [passphrase |-> genReq.passphrase], genReq, Null)
    /\ IF last'.status = "success"
       THEN /\ enabledButtons' = updateButtonStates(appCurrentKeyPair').enabled
            /\ signVerifyStatus' = updateButtonStates(appCurrentKeyPair').status
       ELSE UNCHANGED uiVars
    /\ genPc' = "idle" /\ genReq' = Null
    /\ isGenerating' = FALSE
    /\ loading' = loading \ {"generateBtn"}
    /\ UNCHANGED <<advancedConfig, loadPc, loadReq, disk, domVars>>

\* handleAlgorithmChange
AlgorithmChange(algorithm) ==
    /\ advancedConfig' = [advancedConfig EXCEPT !.algorithm = algorithm]
    /\ UNCHANGED <<storeVars, asyncVars, disk, domVars, last, uiVars>>

\* The values of the expiration select: never, one year, two years
Expirations == {0, 31536000, DEFAULT_EXPIRATION}

\* handleExpirationChange
ExpirationChange(expiration) ==
    /\ advancedConfig' = [advancedConfig EXCEPT !.expiration = expiration]
    /\ UNCHANGED <<storeVars, asyncVars, disk, domVars, last, uiVars>>

\* ------------------------------------------------------ PGPApp: save / load
\* handleSaveKey: KeyManager.saveKeyPair -> FileUtils.saveKeyPairToFile (json)
SaveKey(downloadOk) ==
    /\ IF appCurrentKeyPair = Null
       THEN /\ last' = Obs("save", "error", <<"No key pair to save">>, <<>>, Null, Null, Null)
            /\ disk' = disk
       ELSE IF downloadOk
       THEN /\ disk' = JsonContent(saveKeyPairAsJson(appCurrentKeyPair))
            /\ last' = Obs("save", "success", <<"Key pair saved successfully">>, <<>>,
                           Null, appCurrentKeyPair, Null)
       ELSE /\ disk' = disk
            /\ last' = Obs("save", "error",
                           <<"Save failed", "Save failed", "Failed to save key pair",
                             "Download failed">>, <<>>, Null, appCurrentKeyPair, Null)
    /\ UNCHANGED <<storeVars, advancedConfig, asyncVars, domVars, uiVars>>

\* handleFileLoad up to the FileReader: no file selected returns at once, a
\* file of an unsupported type is rejected before it is read.
FileLoadStart(file) ==
    /\ "loadKeyBtn" \notin loading
    /\ IF file = Null
       THEN /\ last' = Obs("load", "ignored", <<>>, <<>>, file, Null, Null)
            /\ UNCHANGED <<loadPc, loadReq, loading>>
       ELSE IF ~isValidKeyFile(file)
       THEN /\ last' = Obs("load", "error",
                           <<"Load failed">> \o KeyManager_loadKeyFromFile(file, TRUE).error,
                           FileUtils_loadPath(file, TRUE), file, Null, Null)
            /\ UNCHANGED <<loadPc, loadReq, loading>>
       ELSE /\ loadPc' = "readFile"
            /\ loadReq' = file
            /\ loading' = loading \cup {"loadKeyBtn"}
            /\ last' = Obs("load", "pending", <<>>, <<>>, file, Null, Null)
    /\ UNCHANGED <<storeVars, advancedConfig, genPc, genReq, isGenerating, disk, domVars, uiVars>>

\* Variant: a failing load leaves the handler as an uncaught rejection, with
\* nothing displayed
FileLoadComplete_uncaught(readOk) ==
    /\ loadPc = "readFile"
    /\ LET keyPair == KeyManager_loadKeyFromFile(loadReq, readOk)
       IN  IF keyPair.ok
           THEN /\ appCurrentKeyPair' = StoreSet(appCurrentKeyPair, keyPair.value)
                /\ last' = Obs("load", "success", <<"Key pair loaded successfully">>,
                               FileUtils_loadPath(loadReq, readOk), loadReq, Null,
                               keyPair.value)
           ELSE /\ appCurrentKeyPair' = appCurrentKeyPair
                /\ last' = Obs("load", "thrown", <<>>,
                               FileUtils_loadPath(loadReq, readOk), loadReq, Null, Null)
    /\ IF last'.status = "success"
       THEN /\ enabledButtons' = updateButtonStates(appCurrentKeyPair').enabled
            /\ signVerifyStatus' = updateButtonStates(appCurrentKeyPair').status
       ELSE UNCHANGED uiVars
    /\ loadPc' = "idle" /\ loadReq' = Null
    /\ loading' = loading \ {"loadKeyBtn"}
    /\ UNCHANGED <<kmCurrentKeyPair, advancedConfig, genPc, genReq, isGenerating, disk, domVars>>

\* The file was read (or the reader failed); KeyManager.loadKeyFromFile parses
\* the key and handleFileLoad resumes.
FileLoadComplete(readOk) ==
    /\ loadPc = "readFile"
    /\ LET keyPair == KeyManager_loadKeyFromFile(loadReq, readOk)
       IN  IF keyPair.ok
           THEN /\ appCurrentKeyPair' = StoreSet(appCurrentKeyPair, keyPair.value)
                /\ last' = Obs("load", "success", <<"Key pair loaded successfully">>,
                               FileUtils_loadPath(loadReq, readOk), loadReq, Null,
                               keyPair.value)
           ELSE /\ appCurrentKeyPair' = appCurrentKeyPair
                /\ last' = Obs("load", "error", <<"Load failed">> \o keyPair.error,
                               FileUtils_loadPath(loadReq, readOk), loadReq, Null, Null)
    /\ IF last'.status = "success"
       THEN /\ enabledButtons' = updateButtonStates(appCurrentKeyPair').enabled
            /\ signVerifyStatus' = updateButtonStates(appCurrentKeyPair').status
       ELSE UNCHANGED uiVars
    /\ loadPc' = "idle" /\ loadReq' = Null
    /\ loading' = loading \ {"loadKeyBtn"}
    /\ UNCHANGED <<kmCurrentKeyPair, advancedConfig, genPc, genReq, isGenerating, disk, domVars>>


\* ------------------------------------------ PGPApp: sign, verify, encrypt, decrypt
\* the text of a message field after trim(); "" and " " are empty
trimMessage(field) == IF field = " " THEN "" ELSE field
Messages == {"", " ", "hello"}

\* Variant: the handlers do not check for a key pair
NoKeyPair_unchecked(currentKeyPair) == FALSE

\* handleSignMessage / handleDecrypt: the check made before anything else
NoKeyPair(currentKeyPair) == currentKeyPair = Null

\* handleSignMessage
HandleSignMessage(field) ==
    /\ LET message == trimMessage(field)
           signed == SignVerify_signMessage(message, appCurrentKeyPair, 0)
       IN  last' =
             IF NoKeyPair(appCurrentKeyPair)
             THEN Obs("sign", "error", <<"No key pair loaded for signing">>, <<>>,
                      [message |-> field, hasKeyPair |-> FALSE], Null, Null)
             ELSE IF message = ""
             THEN Obs("sign", "error", <<"Please enter a message to sign">>, <<>>,
                      [message |-> field, hasKeyPair |-> TRUE], Null, Null)
             ELSE IF signed.result.ok
             THEN Obs("sign", "success", <<"Message signed successfully">>,
                      <<"SignVerify.signMessage">> \o signed.calls,
                      [message |-> field, hasKeyPair |-> TRUE], appCurrentKeyPair,
                      signed.result.value)
             ELSE Obs("sign", "error", <<"Signing failed">> \o signed.result.error,
                      <<"SignVerify.signMessage">> \o signed.calls,
                      [message |-> field, hasKeyPair |-> TRUE], appCurrentKeyPair, Null)
    /\ UNCHANGED <<storeVars, advancedConfig, asyncVars, disk, domVars, uiVars>>

\* Variant: the stored public key is preferred whenever there is one
ResolvePublicKey_storedFirst(containerDisplay, customKeyText, currentKeyPair) ==
    IF currentKeyPair # Null THEN currentKeyPair.publicKey
    ELSE IF containerDisplay # "none" /\ customKeyText # Null THEN customKeyText
    ELSE Null

\* handleVerifyMessage / handleEncrypt: which public key the operation uses
ResolvePublicKey(containerDisplay, customKeyText, currentKeyPair) ==
    IF containerDisplay # "none"
    THEN (IF customKeyText # Null THEN customKeyText ELSE Null)
    ELSE IF currentKeyPair # Null THEN currentKeyPair.publicKey ELSE Null

\* handleVerifyMessage
HandleVerifyMessage(signedMessage) ==
    /\ LET publicKey == ResolvePublicKey(verifyContainerDisplay, verifyCustomPublicKey,
                                         appCurrentKeyPair)
           verified == SignVerify_verifyMessage(signedMessage, publicKey)
           input == [message |-> signedMessage, empty |-> signedMessage = Null,
                     customMode |-> verifyContainerDisplay # "none",
                     customKeyText |-> verifyCustomPublicKey,
                     hasKeyPair |-> appCurrentKeyPair # Null]
       IN  last' =
             IF signedMessage = Null
             THEN Obs("verify", "error", <<"Please enter a signed message to verify">>, <<>>,
                      input, Null, Null)
             ELSE IF verified.result.ok
             THEN Obs("verify", "result", <<"Verification Result">>,
                      <<"SignVerify.verifyMessage">> \o verified.calls,
                      input, publicKey, verified.result.value)
             ELSE Obs("verify", "error", <<"Verification failed">> \o verified.result.error,
                      <<"SignVerify.verifyMessage">> \o verified.calls,
                      input, publicKey, Null)
    /\ UNCHANGED <<storeVars, advancedConfig, asyncVars, disk, domVars, uiVars>>

\* handleToggleVerifyPublicKey
HandleToggleVerifyPublicKey ==
    /\ verifyContainerDisplay' = IF verifyContainerDisplay = "none" THEN "block" ELSE "none"
    /\ UNCHANGED <<storeVars, advancedConfig, asyncVars, disk, encryptContainerDisplay,
                   verifyCustomPublicKey, encryptCustomPublicKey, useCustomPublicKey,
                   verifyUseCustomPublicKey, last, uiVars>>

\* handleToggleEncryptPublicKey
HandleToggleEncryptPublicKey ==
    /\ encryptContainerDisplay' = IF encryptContainerDisplay = "none" THEN "block" ELSE "none"
    /\ UNCHANGED <<storeVars, advancedConfig, asyncVars, disk, verifyContainerDisplay,
                   verifyCustomPublicKey, encryptCustomPublicKey, useCustomPublicKey,
                   verifyUseCustomPublicKey, last, uiVars>>

\* The user edits a custom public key field (possible while it is displayed)
EditVerifyCustomPublicKey(text) ==
    /\ verifyContainerDisplay # "none"
    /\ verifyCustomPublicKey' = text
    /\ UNCHANGED <<storeVars, advancedConfig, asyncVars, disk, verifyContainerDisplay,
                   encryptContainerDisplay, encryptCustomPublicKey, useCustomPublicKey,
                   verifyUseCustomPublicKey, last, uiVars>>

EditEncryptCustomPublicKey(text) ==
    /\ encryptContainerDisplay # "none"
    /\ encryptCustomPublicKey' = text
    /\ UNCHANGED <<storeVars, advancedConfig, asyncVars, disk, verifyContainerDisplay,
                   encryptContainerDisplay, verifyCustomPublicKey, useCustomPublicKey,
                   verifyUseCustomPublicKey, last, uiVars>>

\* handleEncrypt: this.encrypt.encryptMessage is not a method of class Encrypt
HandleEncrypt(field) ==
    /\ LET message == trimMessage(field)
           publicKey == ResolvePublicKey(encryptContainerDisplay, encryptCustomPublicKey,
                                         appCurrentKeyPair)
           input == [message |-> field, empty |-> message = "",
                     customMode |-> encryptContainerDisplay # "none",
                     customKeyText |-> encryptCustomPublicKey,
                     hasKeyPair |-> appCurrentKeyPair # Null]
       IN  last' =
             IF message = ""
             THEN Obs("encrypt", "error", <<"Please enter a message to encrypt">>, <<>>,
                      input, Null, Null)
             ELSE IF publicKey = Null
             THEN Obs("encrypt", "error", <<"No public key available for encryption">>, <<>>,
                      input, Null, Null)
             ELSE IF "encryptMessage" \notin EncryptMethods
             THEN Obs("encrypt", "error",
                      <<"Encryption failed">>
                          \o NotAFunction("this.encrypt.encryptMessage").error,
                      <<>>, input, publicKey, Null)
             ELSE Obs("encrypt", "success", <<"Message encrypted successfully">>,
                      <<"Encrypt.encryptMessage">>, input, publicKey, Null)
    /\ UNCHANGED <<storeVars, advancedConfig, asyncVars, disk, domVars, uiVars>>

\* handleDecrypt: this.decrypt.decryptMessage is not a method of class Decrypt
HandleDecrypt(field) ==
    /\ LET encryptedMessage == field
           input == [message |-> field, hasKeyPair |-> appCurrentKeyPair # Null]
       IN  last' =
             IF NoKeyPair(appCurrentKeyPair)
             THEN Obs("decrypt", "error", <<"No private key loaded for decryption">>, <<>>,
                      input, Null, Null)
             ELSE IF encryptedMessage = Null
             THEN Obs("decrypt", "error",
                      <<"Please enter an encrypted message to decrypt">>, <<>>,
                      input, Null, Null)
             ELSE IF "decryptMessage" \notin DecryptMethods
             THEN Obs("decrypt", "error",
                      <<"Decryption failed">>
                          \o NotAFunction("this.decrypt.decryptMessage").error,
                      <<>>, input, appCurrentKeyPair, Null)
             ELSE Obs("decrypt", "success", <<"Message decrypted successfully">>,
                      <<"Decrypt.decryptMessage">>, input, appCurrentKeyPair, Null)
    /\ UNCHANGED <<storeVars, advancedConfig, asyncVars, disk, domVars, uiVars>>


\* ------------------------------------------------- the Encrypt and Decrypt modules
\* Encrypt.toggleCustomPublicKey
Encrypt_toggleCustomPublicKey ==
    /\ useCustomPublicKey' = ~useCustomPublicKey
    /\ encryptContainerDisplay' = IF ~useCustomPublicKey THEN "block" ELSE "none"
    /\ UNCHANGED <<storeVars, advancedConfig, asyncVars, disk, verifyContainerDisplay,
                   verifyCustomPublicKey, encryptCustomPublicKey,
                   verifyUseCustomPublicKey, last, uiVars>>

\* toggleCustomPublicKey of Encrypt and of SignVerify: the new flag, the
\* display of the container and the text of the toggle button
toggleCustomPublicKey(useCustom) ==
    [useCustomPublicKey |-> ~useCustom,
     display |-> IF ~useCustom THEN "block" ELSE "none",
     buttonText |-> IF ~useCustom THEN "Use Own Public Key" ELSE "Use Custom Public Key"]

\* updateUI() of Encrypt and of SignVerify begins with this.keyManager.hasKeys()
updateUI ==
    IF "hasKeys" \notin KeyManagerMethods THEN NotAFunction("this.keyManager.hasKeys")
    ELSE Ok(TRUE)

\* What a caller of reset() / toggleCustomPublicKey() finds afterwards
PanelObs(op, toggled) ==
    IF updateUI.ok THEN Obs(op, "returned", <<>>, <<>>, Null, Null, toggled)
    ELSE Obs(op, "thrown", updateUI.error, <<>>, Null, Null, toggled)

\* Encrypt.reset(): the field is emptied, useCustomPublicKey is set to false
\* and toggleCustomPublicKey() is called
Encrypt_reset ==
    /\ LET toggled == toggleCustomPublicKey(FALSE)
       IN  /\ useCustomPublicKey' = toggled.useCustomPublicKey
           /\ encryptContainerDisplay' = toggled.display
           /\ last' = PanelObs("Encrypt.reset", toggled)
    /\ encryptCustomPublicKey' = Null
    /\ UNCHANGED <<storeVars, advancedConfig, asyncVars, disk, verifyContainerDisplay,
                   verifyCustomPublicKey, verifyUseCustomPublicKey, uiVars>>

\* SignVerify.toggleCustomPublicKey()
SignVerify_toggleCustomPublicKey ==
    /\ LET toggled == toggleCustomPublicKey(verifyUseCustomPublicKey)
       IN  /\ verifyUseCustomPublicKey' = toggled.useCustomPublicKey
           /\ verifyContainerDisplay' = toggled.display
           /\ last' = Obs("SignVerify.toggleCustomPublicKey", "returned", <<>>, <<>>,
                          Null, Null, toggled)
    /\ UNCHANGED <<storeVars, advancedConfig, asyncVars, disk, encryptContainerDisplay,
                   verifyCustomPublicKey, encryptCustomPublicKey, useCustomPublicKey, uiVars>>

\* SignVerify.reset()
SignVerify_reset ==
    /\ LET toggled == toggleCustomPublicKey(FALSE)
       IN  /\ verifyUseCustomPublicKey' = toggled.useCustomPublicKey
           /\ verifyContainerDisplay' = toggled.display
           /\ last' = PanelObs("SignVerify.reset", toggled)
    /\ verifyCustomPublicKey' = Null
    /\ UNCHANGED <<storeVars, advancedConfig, asyncVars, disk, encryptContainerDisplay,
                   encryptCustomPublicKey, useCustomPublicKey, uiVars>>

\* Encrypt.handleEncrypt
Encrypt_handleEncrypt(field) ==
    /\ LET message == trimMessage(field)
           customPublicKey == encryptCustomPublicKey
           input == [message |-> field, empty |-> message = "",
                     customMode |-> useCustomPublicKey,
                     customKeyText |-> encryptCustomPublicKey,
                     hasKeyPair |-> kmCurrentKeyPair # Null]
           encrypted == CryptoOps_encryptMessage(kmCurrentKeyPair, message, customPublicKey)
       IN  last' =
             IF message = ""
             THEN Obs("Encrypt.handleEncrypt", "error",
                      <<"Encrypt failed", "Please enter a message to encrypt">>, <<>>,
                      input, Null, Null)
             ELSE IF useCustomPublicKey /\ customPublicKey = Null
             THEN Obs("Encrypt.handleEncrypt", "error",
                      <<"Encrypt failed",
                        "Please enter a recipient's public key or switch to use your own key">>,
                      <<>>, input, Null, Null)
             ELSE IF ~useCustomPublicKey /\ "hasKeys" \notin KeyManagerMethods
             THEN Obs("Encrypt.handleEncrypt", "error",
                      <<"Encrypt failed">> \o NotAFunction("this.keyManager.hasKeys").error,
                      <<>>, input, Null, Null)
             ELSE IF ~useCustomPublicKey /\ kmCurrentKeyPair = Null
             THEN Obs("Encrypt.handleEncrypt", "error",
                      <<"Encrypt failed",
                        "No keys available. Please generate/load keys or use a custom public key.">>,
                      <<>>, input, Null, Null)
             ELSE IF ~useCustomPublicKey /\ "getPublicKey" \notin KeyManagerMethods
             THEN Obs("Encrypt.handleEncrypt", "error",
                      <<"Encrypt failed">>
                          \o NotAFunction("this.keyManager.getPublicKey").error,
                      <<>>, input, Null, Null)
             ELSE IF encrypted.result.ok
             THEN Obs("Encrypt.handleEncrypt", "success",
                      <<"Message encrypted successfully">>,
                      <<"CryptoOps.encryptMessage">> \o encrypted.calls,
                      input, customPublicKey, encrypted.result.value)
             ELSE Obs("Encrypt.handleEncrypt", "error",
                      <<"Encrypt failed">> \o encrypted.result.error,
                      <<"CryptoOps.encryptMessage">> \o encrypted.calls,
                      input, customPublicKey, Null)
    /\ UNCHANGED <<storeVars, advancedConfig, asyncVars, disk, domVars, uiVars>>

\* The messages Decrypt.handleDecrypt displays for the failures it recognises
\* (the line breaks and bullets of the third one are written as commas)
IncorrectPassphraseMessage == <<"Incorrect passphrase. Please check your key passphrase.">>
NotEncryptedForKeyMessage ==
    <<"This message was not encrypted for your key. You cannot decrypt it.">>
GenericDecryptMessage ==
    <<"Failed to decrypt message. Please check that: the message is a valid PGP encrypted message, the message was encrypted for your public key, your private key and passphrase are correct">>

\* Decrypt.handleDecrypt, catch block: the text shown for error.message
DecryptErrorMessage(error) ==
    IF Includes(error, "Incorrect key passphrase") THEN IncorrectPassphraseMessage
    ELSE IF Includes(error, "No decryption keys found") THEN NotEncryptedForKeyMessage
    ELSE IF Includes(error, "Error decrypting message") THEN GenericDecryptMessage
    ELSE error

\* Decrypt.handleDecrypt, try block; field is the trimmed input (Null: empty).
\* cryptoOps.decryptMessage(encryptedMessage, privateKey, passphrase) binds the
\* private key to the passphrase parameter, which equals no key's passphrase (-1).
Decrypt_tryDecrypt(currentKeyPair, encryptedMessage) ==
    IF encryptedMessage = Null
    THEN [result |-> Throw(<<"Please enter an encrypted message to decrypt">>), calls |-> <<>>]
    ELSE IF "hasKeys" \notin KeyManagerMethods
    THEN [result |-> NotAFunction("this.keyManager.hasKeys"), calls |-> <<>>]
    ELSE IF currentKeyPair = Null
    THEN [result |-> Throw(<<"No keys available. Please generate or load keys first.">>),
          calls |-> <<>>]
    ELSE IF encryptedMessage.block # "MESSAGE"
    THEN [result |-> Throw(<<"Invalid PGP message format. Please ensure you've pasted a complete encrypted PGP message.">>),
          calls |-> <<>>]
    ELSE IF "getPrivateKey" \notin KeyManagerMethods
    THEN [result |-> NotAFunction("this.keyManager.getPrivateKey"), calls |-> <<>>]
    ELSE IF "getPassphrase" \notin KeyManagerMethods
    THEN [result |-> NotAFunction("this.keyManager.getPassphrase"), calls |-> <<>>]
    ELSE LET decrypted == CryptoOps_decryptMessage(currentKeyPair, encryptedMessage, -1)
         IN  [result |-> decrypted.result,
              calls |-> <<"CryptoOps.decryptMessage">> \o decrypted.calls]

\* Decrypt.handleDecrypt
Decrypt_handleDecrypt(field) ==
    /\ LET tried == Decrypt_tryDecrypt(kmCurrentKeyPair, field)
           input == [message |-> field, hasKeyPair |-> kmCurrentKeyPair # Null]
       IN  last' =
             IF tried.result.ok
             THEN Obs("Decrypt.handleDecrypt", "success",
                      <<"Message decrypted successfully">>, tried.calls, input,
                      kmCurrentKeyPair, tried.result.value)
             ELSE Obs("Decrypt.handleDecrypt", "error",
                      <<"Decrypt failed">> \o DecryptErrorMessage(tried.result.error),
                      tried.calls, input, kmCurrentKeyPair, Null)
    /\ UNCHANGED <<storeVars, advancedConfig, asyncVars, disk, domVars, uiVars>>

\* ------------------------------------------------ calls into the crypto wrappers
\* What a caller of a wrapper observes: the value returned or the error thrown
Called(op, outcome, input, keyArg) ==
    IF outcome.result.ok
    THEN Obs(op, "returned", <<>>, outcome.calls, input, keyArg, outcome.result.value)
    ELSE Obs(op, "thrown", outcome.result.error, outcome.calls, input, keyArg, Null)

\* KeyManager.setCurrentKeyPair(keyPair)
KeyManager_setCurrentKeyPair(keyPair) ==
    /\ kmCurrentKeyPair' = keyPair
    /\ last' = Obs("KeyManager.setCurrentKeyPair", "returned", <<>>, <<>>, keyPair, Null, Null)
    /\ UNCHANGED <<appCurrentKeyPair, advancedConfig, asyncVars, disk, domVars, uiVars>>

\* KeyManager.getCurrentKeyPair()
getCurrentKeyPair(currentKeyPair) == currentKeyPair

\* Variant: a manager that reports keys whatever it holds
hasKeyPair_always(currentKeyPair) == TRUE

\* KeyManager.hasKeyPair(): this.currentKeyPair !== null
hasKeyPair(currentKeyPair) == currentKeyPair # Null

\* KeyManager.hasKeys() of the backup-based KeyManager
hasKeys(currentKeyPair) == currentKeyPair # Null

\* KeyManager.clearCurrentKeyPair() / clearKeys()
KeyManager_clearCurrentKeyPair ==
    /\ kmCurrentKeyPair' = Null
    /\ last' = Obs("KeyManager.clearCurrentKeyPair", "returned", <<>>, <<>>,
                   kmCurrentKeyPair, Null, Null)
    /\ UNCHANGED <<appCurrentKeyPair, advancedConfig, asyncVars, disk, domVars, uiVars>>

\* a caller reads the accessors
ReadAccessors ==
    /\ last' = Obs("KeyManager.accessors", "returned", <<>>, <<>>, Null, Null,
                   [get |-> getCurrentKeyPair(kmCurrentKeyPair),
                    hasKeyPair |-> hasKeyPair(kmCurrentKeyPair),
                    hasKeys |-> hasKeys(kmCurrentKeyPair)])
    /\ UNCHANGED <<storeVars, advancedConfig, asyncVars, disk, domVars, uiVars>>

\* A parsed backup object: {keys: {private, public}, metadata}
Backup(private, public, metadata) ==
    [keys |-> [private |-> private, public |-> public], metadata |-> metadata]

\* Validation.validateKeyBackup(backup)
validateKeyBackup(backup) ==
    IF backup = Null THEN Throw(<<"Invalid backup file format">>)
    ELSE IF backup.keys = Null \/ backup.keys.private = Null \/ backup.keys.public = Null
    THEN Throw(<<"Backup file missing required keys">>)
    ELSE IF ~validatePGPPublicKey(backup.keys.public)
    THEN Throw(<<"Invalid public key in backup file">>)
    ELSE Ok(TRUE)

\* KeyManager.loadKeyPair(backup) of the backup-based KeyManager: the outcome
\* and the new value of this.currentKeyPair
KeyManager_loadKeyPair(current, backup) ==
    LET valid == validateKeyBackup(backup)
        privateKeyObj == readPrivateKey(backup.keys.private)
        publicKeyObj == readKey(backup.keys.public)
        keyPair == KeyPairRecord(backup.keys.private, backup.keys.public,
                       privateKeyObj.value, publicKeyObj.value,
                       OrElse(backup.metadata, Metadata(publicKeyObj.value, "LOADED")))
        body == IF ~valid.ok THEN valid
                ELSE IF ~privateKeyObj.ok THEN privateKeyObj
                ELSE IF ~publicKeyObj.ok THEN publicKeyObj
                ELSE Ok(keyPair)
    IN  IF body.ok THEN [result |-> body, currentKeyPair |-> keyPair]
        ELSE [result |-> Rethrow("Failed to load key pair", body), currentKeyPair |-> current]

\* a caller invokes KeyManager.loadKeyPair(backup)
LoadBackup(backup) ==
    /\ LET km == KeyManager_loadKeyPair(kmCurrentKeyPair, backup)
       IN  /\ kmCurrentKeyPair' = km.currentKeyPair
           /\ last' = Called("KeyManager.loadKeyPair", [result |-> km.result, calls |-> <<>>],
                             backup, Null)
    /\ UNCHANGED <<appCurrentKeyPair, advancedConfig, asyncVars, disk, domVars, uiVars>>

\* a caller invokes SignVerify.verifyMessage
CallSignVerifyVerify(signedMessage, publicKey) ==
    /\ last' = Called("SignVerify.verifyMessage",
                      SignVerify_verifyMessage(signedMessage, publicKey),
                      [message |-> signedMessage, publicKey |-> publicKey], publicKey)
    /\ UNCHANGED <<storeVars, advancedConfig, asyncVars, disk, domVars, uiVars>>

\* a caller invokes CryptoOps.verifyMessage
CallCryptoOpsVerify(signedMessage, signerPublicKey) ==
    /\ last' = Called("CryptoOps.verifyMessage",
                      CryptoOps_verifyMessage(kmCurrentKeyPair, signedMessage, signerPublicKey),
                      [message |-> signedMessage,
                       publicKey |-> IF signerPublicKey # Null THEN signerPublicKey
                                     ELSE IF kmCurrentKeyPair # Null
                                          THEN kmCurrentKeyPair.publicKey ELSE Null],
                      signerPublicKey)
    /\ UNCHANGED <<storeVars, advancedConfig, asyncVars, disk, domVars, uiVars>>

\* a caller invokes the exported verifyMessage
CallVerifyMessage(signedMessage, publicKey) ==
    /\ last' = Called("verifyMessage", verifyMessage(signedMessage, publicKey),
                      [message |-> signedMessage, publicKey |-> publicKey], publicKey)
    /\ UNCHANGED <<storeVars, advancedConfig, asyncVars, disk, domVars, uiVars>>

\* a caller invokes CryptoOps.decryptMessage
CallCryptoOpsDecrypt(encryptedMessage, passphrase) ==
    /\ last' = Called("CryptoOps.decryptMessage",
                      CryptoOps_decryptMessage(kmCurrentKeyPair, encryptedMessage, passphrase),
                      [message |-> encryptedMessage, passphrase |-> passphrase],
                      kmCurrentKeyPair)
    /\ UNCHANGED <<storeVars, advancedConfig, asyncVars, disk, domVars, uiVars>>

\* a caller invokes CryptoOps.signMessage
CallCryptoOpsSign(message, passphrase) ==
    /\ last' = Called("CryptoOps.signMessage",
                      CryptoOps_signMessage(kmCurrentKeyPair, message, passphrase),
                      [message |-> message, passphrase |-> passphrase], kmCurrentKeyPair)
    /\ UNCHANGED <<storeVars, advancedConfig, asyncVars, disk, domVars, uiVars>>

\* a caller invokes CryptoOps.encryptMessage
CallCryptoOpsEncrypt(message, recipientPublicKey) ==
    /\ last' = Called("CryptoOps.encryptMessage",
                      CryptoOps_encryptMessage(kmCurrentKeyPair, message, recipientPublicKey),
                      [message |-> message, publicKey |-> recipientPublicKey],
                      recipientPublicKey)
    /\ UNCHANGED <<storeVars, advancedConfig, asyncVars, disk, domVars, uiVars>>

\* a caller invokes SignVerify.signMessage
CallSignVerifySign(message, keyPair, passphrase) ==
    /\ last' = Called("SignVerify.signMessage",
                      SignVerify_signMessage(message, keyPair, passphrase),
                      [message |-> message, passphrase |-> passphrase], keyPair)
    /\ UNCHANGED <<storeVars, advancedConfig, asyncVars, disk, domVars, uiVars>>

\* No handler is waiting for the library or the file reader
UserIdle == genPc = "idle" /\ loadPc = "idle"

\* Key lifecycle, the user starting an action only when the previous one has
\* finished: generate, load from a prepared file, change the algorithm.
Next ==
    \/ /\ UserIdle
       /\ \E name \in Names, email \in Emails, passphrase \in PassLens :
              GenerateStart(name, email, passphrase)
    \/ \E id \in KeyIds, fault \in LibFaults : GenerateComplete(id, fault)
    \/ /\ UserIdle
       /\ \E algorithm \in Algorithms : AlgorithmChange(algorithm)
    \/ /\ UserIdle
       /\ \E file \in UserFiles \cup {Null} : FileLoadStart(file)
    \/ \E readOk \in BOOLEAN : FileLoadComplete(readOk)

Spec == Init /\ [][Next]_vars

\* Persistence: generate with valid input, save, and load the saved file or a
\* prepared public key file.
PublicKeyFiles == {File("asc", "text/plain", TextContent(ArmorPublic(toPublic(k)))) : k \in FileKeys}
SavedFiles == IF disk = Null THEN {} ELSE {File("json", "application/json", disk)}

NextPersist ==
    \/ /\ UserIdle
       /\ GenerateStart("Alice", "alice@example.com", MaxPassLen)
    \/ \E id \in KeyIds : GenerateComplete(id, "none")
    \/ /\ UserIdle
       /\ \E algorithm \in Algorithms : AlgorithmChange(algorithm)
    \/ /\ UserIdle
       /\ \E downloadOk \in BOOLEAN : SaveKey(downloadOk)
    \/ /\ UserIdle
       /\ \E file \in PublicKeyFiles \cup SavedFiles : FileLoadStart(file)
    \/ FileLoadComplete(TRUE)

SpecPersist == Init /\ [][NextPersist]_vars

\* Message operations through the controller: a key pair is generated or
\* loaded, custom keys are typed and toggled, messages are signed, verified,
\* encrypted and decrypted.
OtherKeys == {PrivKey(id, "ecc", 0, MIN_PASSPHRASE_LENGTH) : id \in KeyIds}
\* the public key of a correspondent, pasted into a custom key field
CustomKeyTexts == {Null, ArmorPublic(toPublic(PrivKey(MaxKeys, "ecc", 0, MIN_PASSPHRASE_LENGTH)))}
SignedInputs ==
    {Null, PlainText, SignedMessage("MESSAGE", "hello", 1, "tampered")}
    \cup {SignedMessage("MESSAGE", "hello", id, "good") : id \in {1, MaxKeys}}
EncryptedInputs == {Null, PlainText, EncryptedMessage("hello", 1)}
OpsFiles ==
    {File("asc", "text/plain", TextContent(ArmorPublic(toPublic(PrivKey(1, "ecc", 0, MIN_PASSPHRASE_LENGTH))))),
     File("asc", "text/plain", TextContent(Corrupt("PRIVATE KEY BLOCK")))}

NextOps ==
    \/ /\ UserIdle
       /\ \E passphrase \in {MIN_PASSPHRASE_LENGTH - 1, MIN_PASSPHRASE_LENGTH} :
              GenerateStart("Alice", "alice@example.com", passphrase)
    \/ \E id \in KeyIds, fault \in {"none", "readKey"} : GenerateComplete(id, fault)
    \/ /\ UserIdle
       /\ \E file \in OpsFiles : FileLoadStart(file)
    \/ \E readOk \in BOOLEAN : FileLoadComplete(readOk)
    \/ /\ UserIdle
       /\ \E field \in Messages : HandleSignMessage(field)
    \/ /\ UserIdle
       /\ \E signedMessage \in SignedInputs : HandleVerifyMessage(signedMessage)
    \/ /\ UserIdle
       /\ \E field \in Messages : HandleEncrypt(field)
    \/ /\ UserIdle
       /\ \E field \in EncryptedInputs : HandleDecrypt(field)
    \/ /\ UserIdle
       /\ HandleToggleVerifyPublicKey
    \/ /\ UserIdle
       /\ HandleToggleEncryptPublicKey
    \/ /\ UserIdle
       /\ \E text \in CustomKeyTexts : EditVerifyCustomPublicKey(text)
    \/ /\ UserIdle
       /\ \E text \in CustomKeyTexts : EditEncryptCustomPublicKey(text)
    \/ /\ UserIdle
       /\ Encrypt_toggleCustomPublicKey
    \/ /\ UserIdle
       /\ \E field \in Messages : Encrypt_handleEncrypt(field)

SpecOps == Init /\ [][NextOps]_vars

\* The crypto wrappers and the Decrypt module called directly, with every kind
\* of message and key text.
SignedTexts ==
    {SignedMessage(block, "hello", id, "good") :
        block \in {"MESSAGE", "SIGNED MESSAGE"}, id \in KeyIds}
    \cup {SignedMessage(block, "hello", 1, sig) :
        block \in {"MESSAGE", "SIGNED MESSAGE"}, sig \in {"tampered", "forged"}}
    \cup {UnsignedMessage("hello"), Corrupt("MESSAGE"), Corrupt("SIGNED MESSAGE"),
          PlainText, Null}
PublicKeyTexts ==
    {ArmorPublic(toPublic(k)) : k \in OtherKeys} \cup {Corrupt("PUBLIC KEY BLOCK"), PlainText, Null}
EncryptedTexts ==
    {EncryptedMessage("hello", id) : id \in KeyIds} \cup {Corrupt("MESSAGE"), PlainText, Null}
\* Key pair records as generateKeyPair and loadKeyFromFile build them
KeyPairs ==
    {KeyManager_loadKeyFromFile(File("asc", "text/plain", TextContent(ArmorPrivate(k))),
                                TRUE).value : k \in OtherKeys}
    \cup {KeyManager_loadKeyFromFile(
              File("asc", "text/plain",
                   TextContent(ArmorPublic(toPublic(PrivKey(1, "ecc", 0, MIN_PASSPHRASE_LENGTH))))),
              TRUE).value}

NextFacade ==
    \/ \E keyPair \in KeyPairs \cup {Null} : KeyManager_setCurrentKeyPair(keyPair)
    \/ \E signedMessage \in SignedTexts, publicKey \in PublicKeyTexts :
           CallSignVerifyVerify(signedMessage, publicKey)
    \/ \E signedMessage \in SignedTexts, publicKey \in PublicKeyTexts :
           CallCryptoOpsVerify(signedMessage, publicKey)
    \/ \E signedMessage \in SignedTexts, publicKey \in PublicKeyTexts :
           CallVerifyMessage(signedMessage, publicKey)
    \/ \E encryptedMessage \in EncryptedTexts,
          passphrase \in {0, MIN_PASSPHRASE_LENGTH, MaxPassLen + 1} :
           CallCryptoOpsDecrypt(encryptedMessage, passphrase)
    \/ \E field \in EncryptedTexts : Decrypt_handleDecrypt(field)
    \/ \E message \in Messages, passphrase \in {0, MIN_PASSPHRASE_LENGTH, MaxPassLen + 1} :
           CallCryptoOpsSign(message, passphrase)
    \/ \E message \in Messages, publicKey \in PublicKeyTexts :
           CallCryptoOpsEncrypt(message, publicKey)
    \/ \E message \in Messages, keyPair \in KeyPairs \cup {Null},
          passphrase \in {0, MIN_PASSPHRASE_LENGTH, MaxPassLen + 1} :
           CallSignVerifySign(message, keyPair, passphrase)

SpecFacade == Init /\ [][NextFacade]_vars

\* --------------------------------------------------- the seven handlers
\* Every action of the application, the file dialog closed without a file
\* included.
NextHandlers ==
    \/ /\ UserIdle
       /\ \E passphrase \in {MIN_PASSPHRASE_LENGTH - 1, MIN_PASSPHRASE_LENGTH} :
              GenerateStart("Alice", "alice@example.com", passphrase)
    \/ \E fault \in {"none", "generateKey"} : GenerateComplete(1, fault)
    \/ /\ UserIdle
       /\ \E downloadOk \in BOOLEAN : SaveKey(downloadOk)
    \/ /\ UserIdle
       /\ \E file \in OpsFiles \cup {Null} : FileLoadStart(file)
    \/ \E readOk \in BOOLEAN : FileLoadComplete(readOk)
    \/ /\ UserIdle
       /\ \E field \in Messages : HandleSignMessage(field)
    \/ /\ UserIdle
       /\ \E signedMessage \in SignedInputs : HandleVerifyMessage(signedMessage)
    \/ /\ UserIdle
       /\ \E field \in Messages : HandleEncrypt(field)
    \/ /\ UserIdle
       /\ \E field \in EncryptedInputs : HandleDecrypt(field)

SpecHandlers == Init /\ [][NextHandlers]_vars

\* ------------------------------------------------- overlapping user actions
\* The user acts whenever the page lets them: a button is out of reach only
\* while setLoading has disabled it.
NextAsync ==
    \/ GenerateStart("Alice", "alice@example.com", MIN_PASSPHRASE_LENGTH)
    \/ \E id \in KeyIds, fault \in {"none", "generateKey"} : GenerateComplete(id, fault)
    \/ \E file \in OpsFiles : FileLoadStart(file)
    \/ \E readOk \in BOOLEAN : FileLoadComplete(readOk)
    \/ \E downloadOk \in BOOLEAN : SaveKey(downloadOk)
    \/ \E field \in Messages : HandleSignMessage(field)
    \/ \E field \in EncryptedInputs : HandleDecrypt(field)

SpecAsync == Init /\ [][NextAsync]_vars

\* ------------------------------------------------ generation and its options
\* The user sets the advanced options and generates keys.
NextConfig ==
    \/ /\ UserIdle
       /\ GenerateStart("Alice", "alice@example.com", MIN_PASSPHRASE_LENGTH)
    \/ \E id \in KeyIds, fault \in {"none", "generateKey"} : GenerateComplete(id, fault)
    \/ /\ UserIdle
       /\ \E algorithm \in Algorithms : AlgorithmChange(algorithm)
    \/ /\ UserIdle
       /\ \E expiration \in Expirations : ExpirationChange(expiration)

SpecConfig == Init /\ [][NextConfig]_vars

\* ------------------------------------------- the custom public key panels
\* The SignVerify and Encrypt modules driving the two panels: toggle, reset,
\* typing a key and encrypting.
NextPanels ==
    \/ Encrypt_toggleCustomPublicKey
    \/ Encrypt_reset
    \/ SignVerify_toggleCustomPublicKey
    \/ SignVerify_reset
    \/ \E text \in CustomKeyTexts : EditVerifyCustomPublicKey(text)
    \/ \E text \in CustomKeyTexts : EditEncryptCustomPublicKey(text)
    \/ \E field \in Messages : Encrypt_handleEncrypt(field)

SpecPanels == Init /\ [][NextPanels]_vars

\* --------------------------------------------- PGPApp: handlers across their await
\* Variant: the finally block does not run
Finally_skipped(button) == loading

\* finally { this.uiManager.setLoading(button, false) }
Finally(button) == loading \ {button}

\* No handler is waiting for a promise
Quiet == UserIdle /\ loading = {}

\* handleSignMessage up to its await: without a key pair or a message it
\* returns before setLoading(true)
SignMessageStart(field) ==
    IF NoKeyPair(appCurrentKeyPair) \/ trimMessage(field) = ""
    THEN HandleSignMessage(field)
    ELSE /\ loading' = loading \cup {"signBtnNew"}
         /\ last' = Obs("sign", "pending", <<>>, <<"SignVerify.signMessage">>,
                        [message |-> field, hasKeyPair |-> TRUE], appCurrentKeyPair, Null)
         /\ UNCHANGED <<storeVars, advancedConfig, genPc, genReq, loadPc, loadReq,
                        isGenerating, disk, domVars, uiVars>>

\* SignVerify.signMessage settles; handleSignMessage resumes (try / catch / finally)
SignMessageSettle ==
    /\ last.op = "sign" /\ last.status = "pending"
    /\ LET signed == SignVerify_signMessage(trimMessage(last.input.message), last.keyArg, 0)
       IN  last' =
             IF signed.result.ok
             THEN Obs("sign", "success", <<"Message signed successfully">>,
                      <<"SignVerify.signMessage">> \o signed.calls,
                      last.input, last.keyArg, signed.result.value)
             ELSE Obs("sign", "error", <<"Signing failed">> \o signed.result.error,
                      <<"SignVerify.signMessage">> \o signed.calls,
                      last.input, last.keyArg, Null)
    /\ loading' = Finally("signBtnNew")
    /\ UNCHANGED <<storeVars, advancedConfig, genPc, genReq, loadPc, loadReq,
                   isGenerating, disk, domVars, uiVars>>

\* handleVerifyMessage up to its await: an empty field returns before
\* setLoading(true); otherwise the public key is resolved and
\* SignVerify.verifyMessage is called
VerifyMessageStart(signedMessage) ==
    IF signedMessage = Null
    THEN HandleVerifyMessage(signedMessage)
    ELSE /\ loading' = loading \cup {"verifyBtn"}
         /\ last' = Obs("verify", "pending", <<>>, <<"SignVerify.verifyMessage">>,
                        [message |-> signedMessage, empty |-> FALSE,
                         customMode |-> verifyContainerDisplay # "none",
                         customKeyText |-> verifyCustomPublicKey,
                         hasKeyPair |-> appCurrentKeyPair # Null],
                        ResolvePublicKey(verifyContainerDisplay, verifyCustomPublicKey,
                                         appCurrentKeyPair),
                        Null)
         /\ UNCHANGED <<storeVars, advancedConfig, genPc, genReq, loadPc, loadReq,
                        isGenerating, disk, domVars, uiVars>>

\* SignVerify.verifyMessage settles; handleVerifyMessage resumes
VerifyMessageSettle ==
    /\ last.op = "verify" /\ last.status = "pending"
    /\ LET verified == SignVerify_verifyMessage(last.input.message, last.keyArg)
       IN  last' =
             IF verified.result.ok
             THEN Obs("verify", "result", <<"Verification Result">>,
                      <<"SignVerify.verifyMessage">> \o verified.calls,
                      last.input, last.keyArg, verified.result.value)
             ELSE Obs("verify", "error", <<"Verification failed">> \o verified.result.error,
                      <<"SignVerify.verifyMessage">> \o verified.calls,
                      last.input, last.keyArg, Null)
    /\ loading' = Finally("verifyBtn")
    /\ UNCHANGED <<storeVars, advancedConfig, genPc, genReq, loadPc, loadReq,
                   isGenerating, disk, domVars, uiVars>>

\* The six handlers that put a button in the loading state, one at a time;
\* handleEncrypt and handleDecrypt reach their finally block without waiting.
NextBusy ==
    \/ /\ Quiet
       /\ \E passphrase \in {MIN_PASSPHRASE_LENGTH - 1, MIN_PASSPHRASE_LENGTH} :
              GenerateStart("Alice", "alice@example.com", passphrase)
    \/ \E id \in KeyIds, fault \in LibFaults : GenerateComplete(id, fault)
    \/ /\ Quiet
       /\ \E file \in OpsFiles \cup {Null} : FileLoadStart(file)
    \/ \E readOk \in BOOLEAN : FileLoadComplete(readOk)
    \/ /\ Quiet
       /\ \E field \in Messages : SignMessageStart(field)
    \/ SignMessageSettle
    \/ /\ Quiet
       /\ \E signedMessage \in SignedInputs : VerifyMessageStart(signedMessage)
    \/ VerifyMessageSettle
    \/ /\ Quiet
       /\ \E field \in Messages : HandleEncrypt(field)
    \/ /\ Quiet
       /\ \E field \in EncryptedInputs : HandleDecrypt(field)
    \/ /\ Quiet
       /\ HandleToggleVerifyPublicKey

\* A promise the handler waits for settles: the library call or the file
\* reader ends, with a value or with an error.
SpecBusy ==
    /\ Init /\ [][NextBusy]_vars
    /\ WF_vars(\E id \in KeyIds, fault \in LibFaults : GenerateComplete(id, fault))
    /\ WF_vars(\E readOk \in BOOLEAN : FileLoadComplete(readOk))
    /\ WF_vars(SignMessageSettle)
    /\ WF_vars(VerifyMessageSettle)

\* ------------------------------------------- the key-generation form validators
\* CONSTANTS.ERRORS
INVALID_EMAIL == "Please enter a valid email address"
PASSPHRASE_TOO_SHORT == "Passphrase must be at least 8 characters long"

\* Validation.isValidEmail(email)
isValidEmail(email) == emailRegex(email)

\* Validation.validateKeyGenerationFields()
validateKeyGenerationFields(nameField, emailField, passphrase) ==
    LET name == trim(nameField)
        email == emailField
    IN  IF name = "" THEN Throw(<<"Name is required">>)
        ELSE IF email = "" THEN Throw(<<"Email is required">>)
        ELSE IF ~isValidEmail(email) THEN Throw(<<INVALID_EMAIL>>)
        ELSE IF passphrase = 0 THEN Throw(<<"Passphrase is required">>)
        ELSE IF passphrase < MIN_PASSPHRASE_LENGTH THEN Throw(<<PASSPHRASE_TOO_SHORT>>)
        ELSE Ok([name |-> name, email |-> email, passphrase |-> passphrase])

\* Both validators read the same three fields of the form
ValidateForm(nameField, emailField, passphrase) ==
    /\ last' = Obs("validate", "returned", <<>>, <<>>,
                   [name |-> nameField, email |-> emailField, passphrase |-> passphrase],
                   Null,
                   [validateUserInput |->
                        validateUserInput(nameField, emailField, passphrase),
                    validateKeyGenerationFields |->
                        validateKeyGenerationFields(nameField, emailField, passphrase)])
    /\ UNCHANGED <<storeVars, advancedConfig, asyncVars, disk, domVars, uiVars>>

NextForm ==
    \E nameField \in Names, emailField \in Emails, passphrase \in PassLens :
        ValidateForm(nameField, emailField, passphrase)

SpecForm == Init /\ [][NextForm]_vars

\* ------------------------------------------------------- the key store
\* The manager used as a store: generation, loading a file, loading a backup
\* object, set, clear and the accessors.
Backups ==
    {Backup(ArmorPrivate(k), ArmorPublic(toPublic(p)), Null) : k \in FileKeys, p \in FileKeys}
    \cup {Backup(ArmorPrivate(k), ArmorPublic(toPublic(k)), Metadata(toPublic(k), "ECC")) :
              k \in FileKeys}
    \cup {Null, Backup(Null, ArmorPublic(toPublic(PrivKey(1, "ecc", 0, MIN_PASSPHRASE_LENGTH))), Null),
          Backup(ArmorPrivate(PrivKey(1, "ecc", 0, MIN_PASSPHRASE_LENGTH)), PlainText, Null),
          Backup(Corrupt("PRIVATE KEY BLOCK"),
                 ArmorPublic(toPublic(PrivKey(1, "ecc", 0, MIN_PASSPHRASE_LENGTH))), Null)}
StoreFiles ==
    {File("asc", "text/plain", TextContent(ArmorPrivate(PrivKey(1, "ecc", 0, MIN_PASSPHRASE_LENGTH)))),
     File("asc", "text/plain",
          TextContent(ArmorPublic(toPublic(PrivKey(1, "ecc", 0, MIN_PASSPHRASE_LENGTH))))),
     File("json", "application/json",
          Envelope(ArmorPublic(toPublic(PrivKey(1, "ecc", 0, MIN_PASSPHRASE_LENGTH))),
                   ArmorPrivate(PrivKey(MaxKeys, "ecc", 0, MIN_PASSPHRASE_LENGTH)))),
     File("json", "application/json", Envelope(Null, Null))}

NextStore ==
    \/ /\ UserIdle
       /\ GenerateStart("Alice", "alice@example.com", MIN_PASSPHRASE_LENGTH)
    \/ \E id \in KeyIds, fault \in {"none", "generateKey"} : GenerateComplete(id, fault)
    \/ /\ UserIdle
       /\ \E file \in StoreFiles : FileLoadStart(file)
    \/ FileLoadComplete(TRUE)
    \/ /\ UserIdle
       /\ \E backup \in Backups : LoadBackup(backup)
    \/ /\ UserIdle
       /\ \E keyPair \in KeyPairs : KeyManager_setCurrentKeyPair(keyPair)
    \/ /\ UserIdle
       /\ KeyManager_clearCurrentKeyPair
    \/ /\ UserIdle
       /\ ReadAccessors

SpecStore == Init /\ [][NextStore]_vars

\* ------------------------------------------------------------------ properties
\* C1: an operation that ends in an error (generate, load, sign, verify,
\* encrypt or decrypt; validation, file rejection or a library failure at any
\* step) leaves PGPApp.state.currentKeyPair and KeyManager.currentKeyPair
\* exactly as they were before it.
C1_FailedOperationKeepsStore ==
    [][last'.status = "error" => UNCHANGED storeVars]_vars

\* a generation failed on reading back the generated keys while an earlier
\* key pair was stored
C1_Witness ==
    /\ last.op = "generate" /\ last.status = "error"
    /\ Len(last.calls) = 3
    /\ appCurrentKeyPair # Null /\ kmCurrentKeyPair # Null

\* C2: a successful generate or load replaces the current record wholesale:
\* the current key pair is exactly the record returned by the most recently
\* completed successful generate or load, and nothing else changes it.
C2_LastWriteWins ==
    [][IF last'.op \in {"generate", "load"} /\ last'.status = "success"
       THEN appCurrentKeyPair' = last'.result
       ELSE appCurrentKeyPair' = appCurrentKeyPair]_vars

\* a public key file was loaded over a generated key pair
C2_Witness ==
    /\ last.op = "load" /\ last.status = "success"
    /\ kmCurrentKeyPair # Null /\ kmCurrentKeyPair.privateKey # Null
    /\ appCurrentKeyPair.privateKey = Null

\* C3: in handleGenerateClick a passphrase shorter than 8 characters is
\* rejected before any crypto call: the key generation call is not made, an
\* error is reported and no key pair is stored.
C3_ShortPassphraseRejected ==
    [][(last'.op = "generate" /\ last'.input.passphrase < 8)
         => /\ last'.status = "error"
            /\ ~Includes(last'.calls, "generateKey")
            /\ genPc' = "idle"
            /\ UNCHANGED storeVars]_vars

\* name and email are valid and the passphrase has 7 characters
C3_Witness ==
    /\ last.op = "generate" /\ last.status = "error"
    /\ last.input.passphrase = 7
    /\ Includes(last.message, "Passphrase must be at least 8 characters long")

\* the handlers that choose between a custom and the stored public key
KeyChoosingOps == {"verify", "encrypt", "Encrypt.handleEncrypt"}

\* C7 as stated: in every state where the custom key text is non-empty and a
\* current key pair exists, verify and encrypt use the custom key text, never
\* the stored public key.
C7_CustomKeyWheneverTyped ==
    (last.op \in KeyChoosingOps /\ ~last.input.empty
        /\ last.input.customKeyText # Null /\ last.input.hasKeyPair)
    => last.keyArg = last.input.customKeyText

\* C7, amended: whenever custom key mode is on (PGPApp: the custom key
\* container is displayed; Encrypt: useCustomPublicKey is set) and the custom
\* key text is non-empty, verify and encrypt use the custom key text, whether
\* or not a key pair is stored; with the mode off PGPApp uses the stored
\* public key and ignores the custom text.
C7_CustomKeyWhenModeOn ==
    /\ (last.op \in KeyChoosingOps /\ ~last.input.empty
           /\ last.input.customMode /\ last.input.customKeyText # Null)
       => last.keyArg = last.input.customKeyText
    /\ (last.op \in {"verify", "encrypt"} /\ ~last.input.empty
           /\ ~last.input.customMode /\ last.input.hasKeyPair)
       => last.keyArg = appCurrentKeyPair.publicKey

\* a message was verified with a custom key that differs from the stored one
C7_Witness ==
    /\ last.op = "verify" /\ ~last.input.empty
    /\ last.input.customMode /\ last.input.customKeyText # Null /\ last.input.hasKeyPair
    /\ last.keyArg = last.input.customKeyText
    /\ appCurrentKeyPair.publicKey # last.input.customKeyText

\* C8: handleSignMessage and handleDecrypt use the stored key pair and nothing
\* else: without a current key pair they report an error and make no crypto
\* call; with one, the only key material handed on is the stored record.
C8_SignDecryptUseStoredKey ==
    last.op \in {"sign", "decrypt"}
    => /\ last.input.hasKeyPair = (appCurrentKeyPair # Null)
       /\ ~last.input.hasKeyPair
            => (last.status = "error" /\ last.calls = <<>> /\ last.keyArg = Null)
       /\ last.input.hasKeyPair => last.keyArg \in {Null, appCurrentKeyPair}
       /\ last.calls # <<>> => last.keyArg = appCurrentKeyPair

\* a message was handed to SignVerify.signMessage with the stored key pair
C8_Witness ==
    /\ last.op = "sign" /\ last.input.hasKeyPair
    /\ last.calls # <<>>
    /\ last.keyArg = appCurrentKeyPair

\* The library reader each verify entry point applies to the signed text
ParsedBy(op, text) ==
    IF op = "CryptoOps.verifyMessage" THEN readCleartextMessage(text) ELSE readMessage(text)
\* The call returned a negative verification result (valid / verified = false)
NegativeResult(obs) ==
    /\ obs.status = "returned"
    /\ IF obs.op = "CryptoOps.verifyMessage" THEN ~obs.result.verified ELSE ~obs.result.valid
\* Signed text and key both parse, and the signature does not verify under the key
Unverifiable(op, input) ==
    /\ ParsedBy(op, input.message).ok
    /\ input.message.payload = "signed"
    /\ readKey(input.publicKey).ok
    /\ ~signatureVerified(input.message, readKey(input.publicKey).value).ok
\* The signed text or the key text is present but does not parse
Malformed(op, input) ==
    \/ input.message # Null /\ ~ParsedBy(op, input.message).ok
    \/ input.publicKey # Null /\ ~readKey(input.publicKey).ok

\* C4: SignVerify.verifyMessage and CryptoOps.verifyMessage never throw for a
\* merely invalid signature: when message and key parse and the signature does
\* not verify (whatever reason the library gives, a different signer
\* included), the call returns a result with valid / verified = false.
C4_InvalidSignatureIsAResult ==
    (last.op \in {"SignVerify.verifyMessage", "CryptoOps.verifyMessage"}
        /\ Unverifiable(last.op, last.input))
    => NegativeResult(last)

\* C5: at every verify entry point (SignVerify.verifyMessage,
\* CryptoOps.verifyMessage, the exported verifyMessage) a signed message or key
\* that fails to parse gives a failure the caller can tell apart from the
\* valid:false result of a well-formed, non-verifying signature: it is not
\* returned as a valid:false result.
C5_MalformedIsNotANegativeResult ==
    (last.op \in {"SignVerify.verifyMessage", "CryptoOps.verifyMessage", "verifyMessage"}
        /\ Malformed(last.op, last.input))
    => ~NegativeResult(last)

\* C6: a decryption that fails with a private key loaded and a well-formed
\* message is reported as one of three kinds (wrong passphrase, message not
\* encrypted for this key, generic decryption failure), and a message
\* encrypted for another key is reported as not encrypted for this key.
C6_DecryptFailureKinds ==
    (last.op = "Decrypt.handleDecrypt" /\ last.status = "error"
        /\ last.input.hasKeyPair /\ last.keyArg.privateKey # Null
        /\ readMessage(last.input.message).ok)
    => /\ Tail(last.message) \in {IncorrectPassphraseMessage, NotEncryptedForKeyMessage,
                                  GenericDecryptMessage}
       /\ (last.input.message.payload = "encrypted"
             /\ last.input.message.recipient # last.keyArg.publicKeyObj.id)
          => Tail(last.message) = NotEncryptedForKeyMessage

\* C9: loading a JSON envelope without keys.publicKey fails, also when it
\* carries keys.privateKey; loading one with only keys.publicKey succeeds and
\* yields a record whose privateKey is null.
C9_EnvelopeNeedsPublicKey ==
    (last.op = "load" /\ last.status \in {"success", "error"}
        /\ last.input.content.kind = "json" /\ last.input.content.data.keys # Null
        /\ ~Includes(last.message, "Failed to read file"))
    => LET keys == last.input.content.data.keys
       IN  /\ keys.publicKey = Null => last.status = "error"
           /\ (keys.publicKey # Null /\ keys.privateKey = Null)
              => (last.status = "success" /\ last.result.privateKey = Null)

\* C10: saving the current record as a JSON envelope and loading that
\* envelope reproduces the record's public key, private key and metadata
\* (keyId, fingerprint, algorithm, created, userIds) exactly.
C10_SaveLoadRoundTrip ==
    [][(/\ loadPc = "readFile" /\ loadReq.content.kind = "json"
        /\ appCurrentKeyPair # Null
        /\ loadReq.content = JsonContent(saveKeyPairAsJson(appCurrentKeyPair))
        /\ last'.status = "success")
        => /\ appCurrentKeyPair'.publicKey = appCurrentKeyPair.publicKey
           /\ appCurrentKeyPair'.privateKey = appCurrentKeyPair.privateKey
           /\ appCurrentKeyPair'.metadata = appCurrentKeyPair.metadata]_vars

\* C11: the import path follows the content, whatever the file's extension:
\* content that starts with '{' goes to the JSON envelope parser, content
\* with a PGP armor marker that does not start with '{' goes to the bare
\* armored key parser.
C11_ImportSniffsContent ==
    (last.op = "load" /\ last.status \in {"success", "error"}
        /\ ~Includes(last.message, "Failed to read file"))
    => /\ startsWithBrace(last.input.content)
          => last.calls = <<"loadKeyPairFromJson">>
       /\ (~startsWithBrace(last.input.content) /\ isValidPGPContent(last.input.content))
          => last.calls = <<"loadArmoredKeyFromFile">>

\* C12: a call of KeyManager.generateKeyPair, successful or not, leaves the
\* manager's currentKeyPair as it was; the record only becomes current where
\* the caller stores it.
C12_GenerateLeavesManagerUnchanged ==
    [][(genPc = "generateKey" /\ genPc' = "idle")
        => kmCurrentKeyPair' = kmCurrentKeyPair]_vars

\* The wrappers a caller can invoke with explicit arguments
FacadeOps == {"SignVerify.signMessage", "SignVerify.verifyMessage", "verifyMessage",
              "CryptoOps.signMessage", "CryptoOps.verifyMessage",
              "CryptoOps.encryptMessage", "CryptoOps.decryptMessage"}

\* The observation of the call op with the recorded explicit arguments when
\* the store holds the record store
FacadeRun(op, store, input, keyArg) ==
    CASE op = "CryptoOps.signMessage" ->
             Called(op, CryptoOps_signMessage(store, input.message, input.passphrase),
                    input, keyArg)
      [] op = "CryptoOps.verifyMessage" ->
             Called(op, CryptoOps_verifyMessage(store, input.message, keyArg), input, keyArg)
      [] op = "CryptoOps.encryptMessage" ->
             Called(op, CryptoOps_encryptMessage(store, input.message, keyArg), input, keyArg)
      [] op = "CryptoOps.decryptMessage" ->
             Called(op, CryptoOps_decryptMessage(store, input.message, input.passphrase),
                    input, keyArg)
      [] op = "SignVerify.signMessage" ->
             Called(op, SignVerify_signMessage(input.message, keyArg, input.passphrase),
                    input, keyArg)
      [] op = "SignVerify.verifyMessage" ->
             Called(op, SignVerify_verifyMessage(input.message, keyArg), input, keyArg)
      [] OTHER -> Called(op, verifyMessage(input.message, keyArg), input, keyArg)

\* what the caller gets back: the value returned or the error thrown
Outcome(obs) == [status |-> obs.status, message |-> obs.message, result |-> obs.result]

\* C13: a sign, verify, encrypt or decrypt call gives the same outcome (same
\* result or same error) whichever record the store holds: the call just made
\* would have ended the same way with any other current key pair.
C13_OutcomeIndependentOfStore ==
    last.op \in FacadeOps
    => \A store \in KeyPairs \cup {Null} :
           Outcome(FacadeRun(last.op, store, last.input, last.keyArg)) = Outcome(last)

\* C14: with a generated key pair current, signing a non-empty message m
\* through the sign action succeeds, and verifying the signed message with the
\* pair's public key yields valid = true and the message m.
C14_SignVerifyRoundTrip ==
    (last.op = "sign" /\ appCurrentKeyPair # Null /\ appCurrentKeyPair.privateKey # Null
        /\ trimMessage(last.input.message) # "")
    => /\ last.status = "success"
       /\ LET verified == SignVerify_verifyMessage(last.result, appCurrentKeyPair.publicKey)
          IN  /\ verified.result.ok
              /\ verified.result.value.valid
              /\ verified.result.value.message = trimMessage(last.input.message)

\* C15: with a current key pair that has a private key, encrypting a non-empty
\* message to the pair's own public key succeeds, and decrypting a message
\* that was encrypted to that public key succeeds and returns its text.
C15_EncryptDecryptRoundTrip ==
    (appCurrentKeyPair # Null /\ appCurrentKeyPair.privateKeyObj # Null)
    => /\ (last.op = "encrypt" /\ ~last.input.empty /\ ~last.input.customMode)
          => last.status = "success"
       /\ \A m \in Messages \ {"", " "} :
            (last.op = "decrypt"
                /\ last.input.message = encrypt(m, appCurrentKeyPair.publicKeyObj))
            => (last.status = "success" /\ last.result = m)

\* A record is consistent: it has a public key, and a private key it carries
\* has the key ID of that public key
Consistent(keyPair) ==
    keyPair # Null
    => /\ keyPair.publicKey # Null
       /\ keyPair.privateKey # Null
          => KeyIDHex(toPublic(readPrivateKey(keyPair.privateKey).value))
                 = KeyIDHex(readKey(keyPair.publicKey).value)

\* C16: in every reachable state the current record, in the application and
\* in the manager, has a public key, and its private key (if any) belongs to
\* the same key as its public key, however the record was created.
C16_KeyPairConsistent ==
    Consistent(appCurrentKeyPair) /\ Consistent(kmCurrentKeyPair)

\* The seven actions of the application
HandlerOps == {"generate", "save", "load", "sign", "verify", "encrypt", "decrypt"}

\* A handler run ended in a display: a success message, the verification
\* result or one error message
EndsInDisplay(obs) ==
    /\ obs.status \in {"success", "result", "error"}
    /\ obs.message # <<>>

\* C17 as stated: every finished run of a handler ends in a success display
\* or an error display, never in neither.
C17_EveryRunEndsInDisplay ==
    (last.op \in HandlerOps /\ last.status # "pending") => EndsInDisplay(last)

\* C17: every finished run of a handler that was given a file (load) or was
\* started by its button ends in a success display or in exactly one error
\* message, failures of validation, file handling and the crypto wrappers
\* included; a load started without a file ends without any display.
C17_RunWithInputEndsInDisplay ==
    (last.op \in HandlerOps /\ last.status # "pending")
    => IF last.op = "load" /\ last.input = Null
       THEN last.status = "ignored" /\ last.message = <<>>
       ELSE EndsInDisplay(last)

\* a file that cannot be read: the failure is caught and displayed
C17_Witness ==
    /\ last.op = "load" /\ last.status = "error"
    /\ Includes(last.message, "Failed to read file")

\* C18: has (hasKeyPair / hasKeys) is true exactly when get returns a record;
\* clear leaves get = null and has = false, and the manager holds no record
\* again until a set, a successful generate or a successful load.
C18_StoreAccessors ==
    /\ [](/\ hasKeyPair(kmCurrentKeyPair) = (getCurrentKeyPair(kmCurrentKeyPair) # Null)
          /\ hasKeys(kmCurrentKeyPair) = (getCurrentKeyPair(kmCurrentKeyPair) # Null)
          /\ last.op = "KeyManager.accessors"
             => /\ last.result.hasKeyPair = (last.result.get # Null)
                /\ last.result.hasKeys = (last.result.get # Null))
    /\ [][last'.op = "KeyManager.clearCurrentKeyPair"
          => /\ getCurrentKeyPair(kmCurrentKeyPair') = Null
             /\ ~hasKeyPair(kmCurrentKeyPair') /\ ~hasKeys(kmCurrentKeyPair')]_vars
    /\ [][(getCurrentKeyPair(kmCurrentKeyPair) = Null
             /\ getCurrentKeyPair(kmCurrentKeyPair') # Null)
          => \/ last'.op = "KeyManager.setCurrentKeyPair"
             \/ last'.op = "generate" /\ last'.status = "success"
             \/ last'.op = "KeyManager.loadKeyPair" /\ last'.status = "returned"]_vars

\* a manager that held a record was cleared and reports no keys
C18_Witness ==
    /\ last.op = "KeyManager.clearCurrentKeyPair" /\ last.input # Null
    /\ getCurrentKeyPair(kmCurrentKeyPair) = Null /\ ~hasKeyPair(kmCurrentKeyPair)

\* The actions that read the current key pair
ReaderOps == {"sign", "decrypt", "save", "verify", "encrypt"}

\* C19: at most one of generate and file load is in flight, and no action
\* that reads the current key pair runs while a generate or a load is pending.
C19_NonOverlappingCycles ==
    /\ ~(genPc # "idle" /\ loadPc # "idle")
    /\ last.op \in ReaderOps => (genPc = "idle" /\ loadPc = "idle")

\* The two sign wrappers
SignOps == {"SignVerify.signMessage", "CryptoOps.signMessage"}

\* the library call name was made in the run obs
Made(obs, name) == \E i \in 1..Len(obs.calls) : obs.calls[i] = name

\* the run obs failed in the library's key-decryption step
KeyDecryptionFailed(obs) ==
    /\ obs.status = "thrown"
    /\ obs.calls # <<>> /\ obs.calls[Len(obs.calls)] = "decryptKey"

\* the error of the run obs is reported as the wrapper's signing failure
ReportedAsSigningFailure(obs) ==
    obs.status = "thrown" /\ Head(obs.message) \in {"Error signing message", SIGNING_FAILED}

\* C20: in a sign call the key-decryption step runs before the signing step,
\* the signing step is not reached when key decryption fails, and a
\* key-decryption failure is reported as a failure of its own kind, not as
\* the signing failure that every other error is reported as.
C20_SignDecryptsKeyFirst ==
    last.op \in SignOps
    => /\ Made(last, "sign")
          => \E i, j \in 1..Len(last.calls) :
                 i < j /\ last.calls[i] = "decryptKey" /\ last.calls[j] = "sign"
       /\ KeyDecryptionFailed(last) => ~Made(last, "sign")
       /\ KeyDecryptionFailed(last) => ~ReportedAsSigningFailure(last)
       /\ (last.status = "thrown" /\ ~KeyDecryptionFailed(last))
          => ReportedAsSigningFailure(last)

\* the recipient key block handed to the call obs lacks the armor markers
InvalidKeyBlock(obs) == obs.keyArg # Null /\ ~validatePGPPublicKey(obs.keyArg)

\* C21: CryptoOps.encryptMessage rejects a recipient key block without the
\* public key armor before any library call, and reports that as a format
\* failure, not as the encryption failure every other error is reported as.
C21_InvalidKeyBlockIsFormatFailure ==
    (last.op = "CryptoOps.encryptMessage" /\ last.input.message \notin {"", " "})
    => /\ InvalidKeyBlock(last)
          => /\ last.status = "thrown"
             /\ last.calls = <<>>
             /\ Head(last.message) # ENCRYPTION_FAILED
       /\ (last.status = "thrown" /\ ~InvalidKeyBlock(last))
          => Head(last.message) = ENCRYPTION_FAILED

C23_EmptyMessageNeverReachesLibrary ==
    /\ (last.op \in {"sign", "encrypt"} /\ trimMessage(last.input.message) = "")
       => (last.status = "error" /\ last.calls = <<>>)
    /\ (last.op \in {"SignVerify.signMessage", "CryptoOps.signMessage",
                     "CryptoOps.encryptMessage"}
          /\ trimMessage(last.input.message) = "")
       => (last.status = "thrown" /\ last.calls = <<>>)

\* C24: whenever no generate or load is in flight, PGPApp.state.currentKeyPair
\* and KeyManager.currentKeyPair are the same: both null or both the record
\* of the last successful operation.
C24_HoldersAgree ==
    (genPc = "idle" /\ loadPc = "idle") => appCurrentKeyPair = kmCurrentKeyPair

\* C25: a generation with algorithm rsa2048 requests 2048 bits from the
\* library and one with rsa4096 requests 4096 bits, so the algorithm recorded
\* in the metadata agrees with the bit size requested.
C25_RsaBitsMatchAlgorithm ==
    /\ genPc = "generateKey"
       => /\ advancedConfig.algorithm = "rsa2048" => genReq.rsaBits = 2048
          /\ advancedConfig.algorithm = "rsa4096" => genReq.rsaBits = 4096
    /\ (last.op = "generate" /\ last.status = "success")
       => /\ last.result.metadata.algorithm = "RSA2048" => last.keyArg.rsaBits = 2048
          /\ last.result.metadata.algorithm = "RSA4096" => last.keyArg.rsaBits = 4096

\* a custom key container is shown
Visible(display) == display # "none"

\* C26: SignVerify.reset() and Encrypt.reset() leave the module's
\* useCustomPublicKey false, the custom key container hidden and the toggle
\* button reading 'Use Custom Public Key'; and whenever a module changes its
\* flag or its container, the container is visible exactly when the flag is
\* true.
C26_ResetTurnsCustomKeyOff ==
    /\ [](last.op \in {"SignVerify.reset", "Encrypt.reset"}
          => /\ ~last.result.useCustomPublicKey
             /\ ~Visible(last.result.display)
             /\ last.result.buttonText = "Use Custom Public Key")
    /\ [][/\ (useCustomPublicKey' # useCustomPublicKey
               \/ encryptContainerDisplay' # encryptContainerDisplay)
             => Visible(encryptContainerDisplay') = useCustomPublicKey'
          /\ (verifyUseCustomPublicKey' # verifyUseCustomPublicKey
               \/ verifyContainerDisplay' # verifyContainerDisplay)
             => Visible(verifyContainerDisplay') = verifyUseCustomPublicKey']_vars

\* C27: the sign and decrypt buttons are enabled only if the current record
\* has a private key; with a record without a private key the status does
\* not read 'Ready'.
C27_PrivateKeyActionsNeedPrivateKey ==
    /\ ("signBtnNew" \in enabledButtons \/ "decryptBtn" \in enabledButtons)
       => (appCurrentKeyPair # Null /\ appCurrentKeyPair.privateKey # Null)
    /\ (appCurrentKeyPair # Null /\ appCurrentKeyPair.privateKey = Null)
       => signVerifyStatus # "Ready"

\* C28: isGenerating is true only while a key generation is in flight; a button
\* put in the loading state is eventually taken out of it, whether the action
\* succeeds, fails validation or fails in the library; when no handler is
\* waiting, no button is loading and isGenerating is false.
LoadingButtons ==
    {"generateBtn", "loadKeyBtn", "signBtnNew", "verifyBtn", "encryptBtn", "decryptBtn"}

C29_ValidatorsEquivalent ==
    last.op = "validate"
    => last.result.validateUserInput = last.result.validateKeyGenerationFields

\* C30: in handleVerifyMessage and handleEncrypt, with a current key pair and
\* an empty custom public key field the key used is the stored public key,
\* whether the custom-key panel is shown or hidden; when no key is resolved
\* the action reports an error without calling the crypto library.
C30_StoredKeyUsedWithoutCustomKey ==
    (last.op \in {"verify", "encrypt"} /\ last.status # "pending" /\ ~last.input.empty)
    => /\ (last.input.hasKeyPair /\ last.input.customKeyText = Null)
          => last.keyArg = appCurrentKeyPair.publicKey
       /\ last.keyArg = Null => (last.status = "error" /\ last.calls = <<>>)

====
